---- MODULE Spec2Model ----
(***************************************************************************)
(* Anomaly-detection engine and approval workflow of cloud-finops-toolkit:  *)
(*   anomaly/detectors/baseline_detector.py    BaselineDetector            *)
(*   anomaly/detectors/changepoint_detector.py ChangepointDetector         *)
(*   anomaly/detectors/ensemble_detector.py    EnsembleDetector            *)
(*   actions/approval_engine.py                ApprovalEngine              *)
(*   api/routes/action_routes.py               remediation routes          *)
(*                                                                         *)
(* The detectors are stateless: a call reads a data frame and the          *)
(* detector's configuration and returns a list.  The state of the model is *)
(* therefore the frame handed in, the configuration, the behaviour of the  *)
(* optional ruptures backend, and what the last call returned.             *)
(*                                                                         *)
(* Numbers.  Costs are integers.  Timestamps are integers counting hours.  *)
(* Means, percentages and other quotients are exact rationals [num, den]   *)
(* in lowest terms.  Comparisons against mean +/- k*sigma are made         *)
(* exactly, on squares, so no square root is taken; only the confidence of *)
(* an alert is a fixed-point number, in units of 1/ConfScale, rounded      *)
(* down.  Floating-point rounding is not modelled.                         *)
(***************************************************************************)
EXTENDS Integers, Sequences, FiniteSets, TLC

VARIABLES
    time_series,        \* the frame passed by the caller: Seq of [date, cost]
    baseline_days,      \* BaselineDetector.baseline_days
    min_data_points,    \* BaselineDetector.min_data_points
    sensitivity,        \* the sensitivity string given to BaselineDetector
    min_segment_length, \* ChangepointDetector.min_segment_length
    rpt,                \* behaviour of the ruptures backend in this run
    magnitude,          \* argument of a direct call of the severity functions
    op,                 \* the call the caller makes
    outcome,            \* "none" before the call, then "returned" | "raised"
    ret,                \* what the call returned
    logged,             \* what the call wrote to the log
    columns,            \* the column names of the caller's frame
    given,              \* the frame and configuration as first handed over
    history,            \* the calls completed before the current one
    tie_order,          \* how this build's sort orders rows of equal date
    approval_requests,  \* ApprovalEngine.approval_requests, by request id
    approval_log,       \* ApprovalEngine.approval_log
    route_calls,        \* remediation routes between their two engine calls
    executed,           \* the remediations the routes have run
    engine_result       \* what the last engine or route call gave its caller

vars == <<time_series, baseline_days, min_data_points, sensitivity,
          min_segment_length, rpt, magnitude, op, outcome, ret, logged,
          columns, given, history, tie_order,
          approval_requests, approval_log, route_calls, executed, engine_result>>

----------------------------------------------------------------------------
(* Bounds of the checked instances *)

MaxLen == 5         \* longest exhaustively enumerated series
MaxCost == 1        \* exhaustively enumerated costs are 0..MaxCost
MaxWindow == 5      \* baseline_days and min_data_points range over 1..MaxWindow
MaxTail == 3        \* points after the spike in the spike family
MaxCpLen == 15      \* longest series given to ChangepointDetector
MaxMinSeg == 8      \* min_segment_length ranges over 1..MaxMinSeg
MaxEnsLen == 14     \* longest series given to EnsembleDetector
MaxFree == 3        \* trailing rows of an ensemble series that may spike
MaxCalls == 3       \* calls made on the same detectors and frame in a session
MaxRequests == 2    \* approval requests created on one engine
MaxMagnitude == 110 \* severity functions are probed on 0, 0.5, .., MaxMagnitude
ConfScale == 100    \* resolution of the confidence: hundredths

HoursPerDay == 24   \* Timedelta.days counts whole days of 24 hours
max_cost_impact == 100 \* auto_approval_rules["max_cost_impact"], in dollars

----------------------------------------------------------------------------
(* Arithmetic helpers *)

Abs(x) == IF x < 0 THEN -x ELSE x
Max(a, b) == IF a >= b THEN a ELSE b
Min(a, b) == IF a <= b THEN a ELSE b

RECURSIVE GCD(_, _)
GCD(a, b) == IF b = 0 THEN a ELSE GCD(b, a % b)

\* the rational n/d (d # 0) in lowest terms with a positive denominator
Rat(n, d) ==
    LET g == GCD(Abs(n), Abs(d))
        s == IF d < 0 THEN -1 ELSE 1
    IN  [num |-> s * (n \div g), den |-> s * (d \div g)]

RatZero == [num |-> 0, den |-> 1]
RatAbs(r) == [num |-> Abs(r.num), den |-> r.den]
RatGT(r, q) == r.num * q.den > q.num * r.den
RatGE(r, q) == r.num * q.den >= q.num * r.den
RatInt(k) == [num |-> k, den |-> 1]

\* floor of the square root of x, by bisection: lo * lo <= x < hi * hi
RECURSIVE IsqrtBetween(_, _, _)
IsqrtBetween(x, lo, hi) ==
    IF hi - lo <= 1 THEN lo
    ELSE LET mid == (lo + hi) \div 2
         IN  IF mid * mid <= x THEN IsqrtBetween(x, mid, hi)
             ELSE IsqrtBetween(x, lo, mid)
Isqrt(x) == IsqrtBetween(x, 0, Min(x + 1, 46341))

RECURSIVE Sum(_)
Sum(s) == IF s = <<>> THEN 0 ELSE Head(s) + Sum(Tail(s))

RECURSIVE SumSq(_)
SumSq(s) == IF s = <<>> THEN 0 ELSE Head(s) * Head(s) + SumSq(Tail(s))

Costs(frame) == [i \in 1..Len(frame) |-> frame[i].cost]

----------------------------------------------------------------------------
(* pandas: DataFrame.sort_values("date").  The default kind, quicksort, is  *)
(* not stable: rows of equal date come out in an order the build decides,  *)
(* the same at every call.  Two such orders are modelled: as the caller    *)
(* gave them ("as_given") and the other way round ("turned").              *)

TieOrders == {"as_given", "turned"}

\* a row of date d stays before a later row of date e
PlacedBefore(d, e) == IF tie_order = "as_given" THEN d <= e ELSE d < e

RECURSIVE InsertByDate(_, _)
InsertByDate(sorted, row) ==
    IF sorted = <<>> THEN <<row>>
    ELSE IF PlacedBefore(sorted[Len(sorted)].date, row.date) THEN Append(sorted, row)
    ELSE Append(InsertByDate(SubSeq(sorted, 1, Len(sorted) - 1), row),
                sorted[Len(sorted)])

\* mutant: the rows left in the caller's order
NoSort(frame) == frame

RECURSIVE SortByDate(_)
SortByDate(frame) ==
    IF frame = <<>> THEN <<>>
    ELSE InsertByDate(SortByDate(SubSeq(frame, 1, Len(frame) - 1)),
                      frame[Len(frame)])

----------------------------------------------------------------------------
(* BaselineDetector *)

Sensitivities == {"low", "medium", "high", "very_high", "unknown"}

\* std_threshold_map, doubled so that 1.5 is an integer
\* mutant: the multiplier of "low" taken to be that of "medium"
LowAsMedium ==
    [low |-> 6, medium |-> 6, high |-> 4, very_high |-> 3]

std_threshold_map ==
    [low |-> 8, medium |-> 6, high |-> 4, very_high |-> 3]

\* self.std_threshold (doubled): std_threshold_map.get(sensitivity, 3.0)
std_threshold(sens) ==
    IF sens \in DOMAIN std_threshold_map THEN std_threshold_map[sens] ELSE 6

\* the trailing window of row i: rolling(window=w) over the sorted costs
RollingWindow(costs, i, w) == SubSeq(costs, Max(1, i - w + 1), i)

\* rolling(...).mean() is a number: at least min_periods observations
HasRollingMean(costs, i, w, minp) == Len(RollingWindow(costs, i, w)) >= minp

\* rolling(...).std() is a number: as the mean, and more than ddof=1 observations
HasRollingStd(costs, i, w, minp) ==
    /\ Len(RollingWindow(costs, i, w)) >= minp
    /\ Len(RollingWindow(costs, i, w)) > 1

\* n * (actual - rolling_mean)
DevTimesN(win) == Len(win) * win[Len(win)] - Sum(win)

\* n * n * (n - 1) * rolling_std^2 / n  =  n * sum(x^2) - sum(x)^2
VarTimes(win) == Len(win) * SumSq(win) - Sum(win) * Sum(win)

\* (actual - mean)^2 scaled, and (k * std)^2 on the same scale:
\*   |actual - mean| > k * std  <=>  DistSq > BandSq
DistSq(win) == 4 * DevTimesN(win) * DevTimesN(win) * (Len(win) - 1)
BandSq(win, k2) == k2 * k2 * Len(win) * VarTimes(win)

\* mutant: a value on the upper bound counted as above it
AboveOrOnUpper(win, k2) == DevTimesN(win) > 0 /\ DistSq(win) >= BandSq(win, k2)

\* actual > upper_bound
AboveUpper(win, k2) == DevTimesN(win) > 0 /\ DistSq(win) > BandSq(win, k2)
\* actual < lower_bound
BelowLower(win, k2) == DevTimesN(win) < 0 /\ DistSq(win) > BandSq(win, k2)

is_anomaly(win, k2) == AboveUpper(win, k2) \/ BelowLower(win, k2)

\* ((actual - expected) / expected * 100) if expected > 0 else 0
Deviation(win) ==
    IF Sum(win) > 0 THEN Rat(100 * DevTimesN(win), Sum(win)) ELSE RatZero

\* _calculate_severity(deviation_percent)
_calculate_severity(p) ==
    IF RatGE(p, RatInt(100)) THEN "critical"
    ELSE IF RatGE(p, RatInt(50)) THEN "high"
    ELSE IF RatGE(p, RatInt(25)) THEN "medium"
    ELSE "low"

\* (actual - bound) / (bound - expected), in units of 1/ConfScale rounded
\* down: sqrt(DistSq / BandSq) - 1.  Only used when BandSq > 0.
BeyondBound(win, k2) ==
    LET g == GCD(DistSq(win), BandSq(win, k2))
        a == DistSq(win) \div g
        b == BandSq(win, k2) \div g
    IN  Isqrt((ConfScale * ConfScale * a) \div b) - ConfScale

\* mutant: the ratio without min(1.0, ...)
UnclampedConfidence(win, k2) ==
    IF BandSq(win, k2) > 0 THEN BeyondBound(win, k2) ELSE ConfScale

\* min(1.0, (actual - upper) / (upper - expected) if upper > expected else 1.0)
\* and the same below the lower bound; upper > expected <=> std > 0
Confidence(win, k2) ==
    Min(ConfScale,
        IF BandSq(win, k2) > 0 THEN BeyondBound(win, k2) ELSE ConfScale)

\* the AnomalyAlert built for row i of the sorted frame
Alert(sorted, i, w, k2) ==
    LET win == RollingWindow(Costs(sorted), i, w) IN
    [ timestamp         |-> sorted[i].date,
      actual_value      |-> sorted[i].cost,
      expected_value    |-> Rat(Sum(win), Len(win)),
      deviation_percent |-> Deviation(win),
      severity          |-> _calculate_severity(RatAbs(Deviation(win))),
      confidence        |-> Confidence(win, k2),
      direction         |-> IF RatGT(Deviation(win), RatZero)
                            THEN "spike" ELSE "drop" ]

\* the loop over time_series.iterrows(), rows 1..i
RECURSIVE AlertsUpTo(_, _, _, _, _)
AlertsUpTo(sorted, i, w, minp, k2) ==
    IF i = 0 THEN <<>>
    ELSE LET before == AlertsUpTo(sorted, i - 1, w, minp, k2)
             win == RollingWindow(Costs(sorted), i, w)
         IN  IF ~HasRollingMean(Costs(sorted), i, w, minp)
                \/ ~HasRollingStd(Costs(sorted), i, w, minp)
             THEN before
             ELSE IF is_anomaly(win, k2)
             THEN Append(before, Alert(sorted, i, w, k2))
             ELSE before

\* pandas refuses rolling(window, min_periods) with min_periods > window
RollingRaises(w, minp) == minp > w

\* mutant: detect without the early return on a short series
BaselineDetectNoGuard(frame, w, minp, sens) ==
    IF RollingRaises(w, minp)
    THEN [outcome |-> "raised", value |-> <<>>]
    ELSE [outcome |-> "returned",
          value |-> AlertsUpTo(SortByDate(frame), Len(frame), w, minp,
                               std_threshold(sens))]

\* BaselineDetector.detect: [outcome, value]
BaselineDetect(frame, w, minp, sens) ==
    IF Len(frame) < minp
    THEN [outcome |-> "returned", value |-> <<>>]
    ELSE IF RollingRaises(w, minp)
    THEN [outcome |-> "raised", value |-> <<>>]
    ELSE [outcome |-> "returned",
          value |-> AlertsUpTo(SortByDate(frame), Len(frame), w, minp,
                               std_threshold(sens))]

----------------------------------------------------------------------------
(* ChangepointDetector *)

\* signal[lo:hi] with 0-based, end-exclusive Python bounds
Slice(signal, lo, hi) == SubSeq(signal, lo + 1, hi)

\* np.mean(values) if len(values) > 0 else 0
MeanOrZero(values) ==
    IF Len(values) > 0 THEN Rat(Sum(values), Len(values)) ELSE RatZero

\* ((after_mean - before_mean) / before_mean * 100) if before_mean > 0 else 0
ChangePercent(before, after) ==
    IF Sum(before) > 0
    THEN Rat(100 * (Sum(after) * Len(before) - Sum(before) * Len(after)),
             Sum(before) * Len(after))
    ELSE RatZero

\* mutant: the medium threshold taken strictly
BadChangeSeverity(p) ==
    IF RatGE(p, RatInt(100)) THEN "critical"
    ELSE IF RatGE(p, RatInt(50)) THEN "high"
    ELSE IF RatGT(p, RatInt(25)) THEN "medium"
    ELSE "low"

\* _calculate_change_severity(change_percent)
_calculate_change_severity(p) ==
    IF RatGE(p, RatInt(100)) THEN "critical"
    ELSE IF RatGE(p, RatInt(50)) THEN "high"
    ELSE IF RatGE(p, RatInt(25)) THEN "medium"
    ELSE "low"

\* mutant: the event dated at the last point before the break
PeltEventDatedBefore(sorted, cp_idx) ==
    LET signal == Costs(sorted)
        before_values == Slice(signal, Max(0, cp_idx - 7), cp_idx)
        after_values == Slice(signal, cp_idx, Min(Len(signal), cp_idx + 7))
        change_percent == ChangePercent(before_values, after_values)
    IN  [ date           |-> sorted[cp_idx].date,
          index          |-> cp_idx,
          before_mean    |-> MeanOrZero(before_values),
          after_mean     |-> MeanOrZero(after_values),
          change_percent |-> change_percent,
          change_type    |-> IF RatGT(change_percent, RatZero)
                             THEN "increase" ELSE "decrease",
          severity       |-> _calculate_change_severity(RatAbs(change_percent)) ]

\* the event built in detect for the 0-based break index cp_idx
PeltEvent(sorted, cp_idx) ==
    LET signal == Costs(sorted)
        before_values == Slice(signal, Max(0, cp_idx - 7), cp_idx)
        after_values == Slice(signal, cp_idx, Min(Len(signal), cp_idx + 7))
        change_percent == ChangePercent(before_values, after_values)
    IN  [ date           |-> sorted[cp_idx + 1].date,
          index          |-> cp_idx,
          before_mean    |-> MeanOrZero(before_values),
          after_mean     |-> MeanOrZero(after_values),
          change_percent |-> change_percent,
          change_type    |-> IF RatGT(change_percent, RatZero)
                             THEN "increase" ELSE "decrease",
          severity       |-> _calculate_change_severity(RatAbs(change_percent)) ]

\* "Remove last index (it's always the end of the series)"
DropEndMarker(change_points, n) ==
    IF change_points # <<>> /\ change_points[Len(change_points)] = n
    THEN SubSeq(change_points, 1, Len(change_points) - 1)
    ELSE change_points

\* the loop "for cp_idx in change_points", over the first k of them
RECURSIVE PeltEvents(_, _, _)
PeltEvents(sorted, change_points, k) ==
    IF k = 0 THEN <<>>
    ELSE LET before == PeltEvents(sorted, change_points, k - 1)
             cp_idx == change_points[k]
         IN  IF cp_idx = 0 \/ cp_idx >= Len(sorted)
             THEN before
             ELSE Append(before, PeltEvent(sorted, cp_idx))

\* rolling(window, min_periods).mean() at 0-based row idx is a number
HasMovingAverage(idx, window, minp) == Min(idx + 1, window) >= minp

\* the rows rolling(window) averages at 0-based row idx
MovingWindow(signal, idx, window) == Slice(signal, Max(0, idx + 1 - window), idx + 1)

\* (ma_7 - ma_30) / ma_30 * 100, for ma_30 # 0
MovingDeviation(short, long) ==
    Rat(100 * (Sum(short) * Len(long) - Sum(long) * Len(short)),
        Sum(long) * Len(short))

\* the loop "for idx in range(7, len(time_series))" of the fallback, up to idx
RECURSIVE SimpleEvents(_, _)
SimpleEvents(sorted, idx) ==
    IF idx < 7 THEN <<>>
    ELSE LET events == SimpleEvents(sorted, idx - 1)
             signal == Costs(sorted)
             short == MovingWindow(signal, idx, 7)
             long == MovingWindow(signal, idx, 30)
         IN  IF \/ ~HasMovingAverage(idx, 7, 4)
                \/ ~HasMovingAverage(idx, 30, 14)
                \/ Sum(long) = 0
             THEN events
             ELSE LET deviation == MovingDeviation(short, long) IN
                  IF /\ RatGT(RatAbs(deviation), RatInt(30))
                     /\ \/ events = <<>>
                        \/ idx - events[Len(events)].index > 7
                  THEN Append(events,
                         [ date           |-> sorted[idx + 1].date,
                           index          |-> idx,
                           before_mean    |-> Rat(Sum(long), Len(long)),
                           after_mean     |-> Rat(Sum(short), Len(short)),
                           change_percent |-> deviation,
                           change_type    |-> IF RatGT(deviation, RatZero)
                                              THEN "increase" ELSE "decrease",
                           severity       |->
                               _calculate_change_severity(RatAbs(deviation)) ])
                  ELSE events

\* ChangepointDetector._simple_change_detection
_simple_change_detection(frame) ==
    IF Len(frame) < 14 THEN <<>>
    ELSE SimpleEvents(SortByDate(frame), Len(frame) - 1)

\* mutant: a failing backend answered with an empty list, not the fallback
ChangepointDetectSwallow(frame, msl, backend) ==
    IF backend.mode = "import_error"
    THEN [value |-> _simple_change_detection(frame), logged |-> "not_installed"]
    ELSE IF Len(frame) < msl * 2
    THEN [value |-> <<>>, logged |-> "insufficient_data"]
    ELSE IF backend.mode = "raises"
    THEN [value |-> <<>>, logged |-> "ruptures_error"]
    ELSE [value |-> PeltEvents(SortByDate(frame),
                               DropEndMarker(backend.change_points, Len(frame)),
                               Len(DropEndMarker(backend.change_points, Len(frame)))),
          logged |-> "none"]

\* ChangepointDetector.detect: [value, logged].  backend.mode is what the
\* ruptures backend does in this run ("import_error": the import fails,
\* "raises": fit/predict raises, "ok": predict returns backend.change_points)
ChangepointDetect(frame, msl, backend) ==
    IF backend.mode = "import_error"
    THEN [value |-> _simple_change_detection(frame), logged |-> "not_installed"]
    ELSE IF Len(frame) < msl * 2
    THEN [value |-> <<>>, logged |-> "insufficient_data"]
    ELSE IF backend.mode = "raises"
    THEN [value |-> _simple_change_detection(SortByDate(frame)),
          logged |-> "ruptures_error"]
    ELSE [value |-> PeltEvents(SortByDate(frame),
                               DropEndMarker(backend.change_points, Len(frame)),
                               Len(DropEndMarker(backend.change_points, Len(frame)))),
          logged |-> "none"]

----------------------------------------------------------------------------
(* EnsembleDetector *)

\* abs((anomaly.timestamp - cp_date).days): Timedelta.days is the floor
days_diff(timestamp, cp_date) == Abs((timestamp - cp_date) \div HoursPerDay)

\* the inner loop: some change point lies within the window of the anomaly
HasNearbyChangepoint(anomaly, changepoint_dates) ==
    \E j \in 1..Len(changepoint_dates) :
        days_diff(anomaly.timestamp, changepoint_dates[j]) <= 3

\* the dict appended for one anomaly
HighConfidenceEvent(anomaly) ==
    [ date               |-> anomaly.timestamp,
      type               |-> "high_confidence_anomaly",
      baseline_severity  |-> anomaly.severity,
      baseline_deviation |-> anomaly.deviation_percent,
      actual_value       |-> anomaly.actual_value,
      expected_value     |-> anomaly.expected_value,
      confidence         |-> anomaly.confidence ]

\* mutant: the inner loop without its break, over the first k dates
RECURSIVE AppendedWithoutBreak(_, _, _)
AppendedWithoutBreak(anomaly, changepoint_dates, k) ==
    IF k = 0 THEN <<>>
    ELSE AppendedWithoutBreak(anomaly, changepoint_dates, k - 1)
         \o (IF days_diff(anomaly.timestamp, changepoint_dates[k]) <= 3
             THEN <<HighConfidenceEvent(anomaly)>> ELSE <<>>)
HighConfidenceForNoBreak(anomaly, changepoint_dates) ==
    AppendedWithoutBreak(anomaly, changepoint_dates, Len(changepoint_dates))

\* the dicts the inner loop appends for one anomaly, up to the break
HighConfidenceFor(anomaly, changepoint_dates) ==
    IF HasNearbyChangepoint(anomaly, changepoint_dates)
    THEN <<HighConfidenceEvent(anomaly)>>
    ELSE <<>>

\* EnsembleDetector._find_overlapping_anomalies, over the first k anomalies
RECURSIVE FindOverlapping(_, _, _)
FindOverlapping(baseline_anomalies, changepoint_events, k) ==
    IF k = 0 THEN <<>>
    ELSE FindOverlapping(baseline_anomalies, changepoint_events, k - 1)
         \o HighConfidenceFor(baseline_anomalies[k],
                [j \in 1..Len(changepoint_events) |-> changepoint_events[j].date])

_find_overlapping_anomalies(baseline_anomalies, changepoint_events) ==
    FindOverlapping(baseline_anomalies, changepoint_events, Len(baseline_anomalies))

\* mutant: the baseline detector built with a window of 7 days
EnsembleDetectShortWindow(frame, sens, backend) ==
    LET baseline_anomalies == BaselineDetect(frame, 7, 7, sens).value
        changepoint_events == ChangepointDetect(frame, 3, backend).value
        high_confidence ==
            _find_overlapping_anomalies(baseline_anomalies, changepoint_events)
    IN  [ baseline_anomalies        |-> baseline_anomalies,
          changepoint_events        |-> changepoint_events,
          high_confidence_anomalies |-> high_confidence,
          total_anomalies           |-> Len(baseline_anomalies),
          total_changepoints        |-> Len(changepoint_events),
          high_confidence_count     |-> Len(high_confidence) ]

\* EnsembleDetector.detect; the detectors are built with their defaults
EnsembleDetect(frame, sens, backend) ==
    LET baseline_anomalies == BaselineDetect(frame, 14, 7, sens).value
        changepoint_events == ChangepointDetect(frame, 3, backend).value
        high_confidence ==
            _find_overlapping_anomalies(baseline_anomalies, changepoint_events)
    IN  [ baseline_anomalies        |-> baseline_anomalies,
          changepoint_events        |-> changepoint_events,
          high_confidence_anomalies |-> high_confidence,
          total_anomalies           |-> Len(baseline_anomalies),
          total_changepoints        |-> Len(changepoint_events),
          high_confidence_count     |-> Len(high_confidence) ]

----------------------------------------------------------------------------
(* The public calls, on a frame that may lack a column *)

\* an exception that reaches the caller: its class and the name it carries
Raised(exception, names) ==
    [outcome |-> "raised",
     value   |-> [exception |-> exception, names |-> names],
     logged  |-> "none"]

\* mutant: the frame sorted in place instead of a sorted copy
FrameSortedInPlace(frame) == SortByDate(frame)

\* the caller's frame after a call: every method works on
\* time_series.copy(), so the frame keeps its rows and their order
CallerFrameAfterCall(frame) == frame

\* BaselineDetector.detect(time_series): [outcome, value, logged].  The
\* columns are looked up after the early return on a short series.
BaselineDetectCall(cols, frame, w, minp, sens) ==
    LET r == BaselineDetect(frame, w, minp, sens)
        enough == Len(frame) >= minp
    IN  IF enough /\ "date" \notin cols
        THEN Raised("ValueError", "date")
        ELSE IF enough /\ "cost" \notin cols
        THEN Raised("KeyError", "cost")
        ELSE IF r.outcome = "raised"
        THEN Raised("ValueError", "min_periods")
        ELSE [outcome |-> "returned",
              value   |-> r.value,
              logged  |-> IF enough THEN "none" ELSE "insufficient_data"]

\* ChangepointDetector._simple_change_detection(time_series)
SimpleChangeDetectionCall(cols, frame, note) ==
    IF Len(frame) < 14
    THEN [outcome |-> "returned", value |-> <<>>, logged |-> note]
    ELSE IF "date" \notin cols
    THEN [Raised("KeyError", "date") EXCEPT !.logged = note]
    ELSE IF "cost" \notin cols
    THEN [Raised("KeyError", "cost") EXCEPT !.logged = note]
    ELSE [outcome |-> "returned",
          value   |-> _simple_change_detection(frame),
          logged  |-> note]

\* ChangepointDetector.detect(time_series): [outcome, value, logged]
ChangepointDetectCall(cols, frame, msl, backend) ==
    IF backend.mode = "import_error"
    THEN SimpleChangeDetectionCall(cols, frame, "not_installed")
    ELSE IF Len(frame) < msl * 2
    THEN [outcome |-> "returned", value |-> <<>>, logged |-> "insufficient_data"]
    ELSE IF "date" \notin cols
    THEN Raised("KeyError", "date")
    ELSE IF "cost" \notin cols
    THEN Raised("KeyError", "cost")
    ELSE LET r == ChangepointDetect(frame, msl, backend) IN
         [outcome |-> "returned", value |-> r.value, logged |-> r.logged]

\* EnsembleDetector.detect(time_series): [outcome, value, logged]
EnsembleDetectCall(cols, frame, sens, backend) ==
    IF "date" \notin cols
    THEN Raised("KeyError", "date")
    ELSE LET b == BaselineDetectCall(cols, frame, 14, 7, sens)
             c == ChangepointDetectCall(cols, frame, 3, backend)
         IN  IF b.outcome = "raised" THEN b
             ELSE IF c.outcome = "raised" THEN c
             ELSE [outcome |-> "returned",
                   value   |-> EnsembleDetect(frame, sens, backend),
                   logged  |-> c.logged]

----------------------------------------------------------------------------
(* Calls per dimension value, and segment statistics *)

\* Series.unique(): the values of the service column in order of first
\* appearance, over the first k rows
RECURSIVE UniqueServices(_, _)
UniqueServices(frame, k) ==
    IF k = 0 THEN <<>>
    ELSE LET before == UniqueServices(frame, k - 1)
         IN  IF \E j \in 1..Len(before) : before[j] = frame[k].service
             THEN before
             ELSE Append(before, frame[k].service)

\* mutant: the whole frame instead of the rows of one dimension value
WholeFrame(frame, dimension_value) == frame

\* time_series[time_series[dimension_col] == dimension_value]
Partition(frame, dimension_value) ==
    LET OfValue(row) == row.service = dimension_value
    IN  SelectSeq(frame, OfValue)

\* the loop of detect_by_dimension over the first k dimension values:
\* [outcome, value, logged], value a sequence of [key, value] in insertion order
RECURSIVE ByDimensionUpTo(_, _, _, _, _, _, _)
ByDimensionUpTo(cols, frame, values, k, w, minp, sens) ==
    IF k = 0
    THEN [outcome |-> "returned", value |-> <<>>, logged |-> "none"]
    ELSE LET results == ByDimensionUpTo(cols, frame, values, k - 1, w, minp, sens)
             subset == Partition(frame, values[k])
             anomalies == BaselineDetectCall(cols, subset, w, minp, sens)
         IN  IF results.outcome = "raised" THEN results
             ELSE IF Len(subset) < minp THEN results
             ELSE IF anomalies.outcome = "raised" THEN anomalies
             ELSE IF anomalies.value = <<>> THEN results
             ELSE [results EXCEPT !.value =
                      Append(@, [key |-> values[k], value |-> anomalies.value])]

\* BaselineDetector.detect_by_dimension(time_series, "service")
detect_by_dimension(cols, frame, w, minp, sens) ==
    IF "service" \notin cols
    THEN Raised("ValueError", "service")
    ELSE ByDimensionUpTo(cols, frame, UniqueServices(frame, Len(frame)),
                         Len(UniqueServices(frame, Len(frame))), w, minp, sens)

\* what the backend does on a partition of n rows: the same failure, or the
\* breaks it reports that lie inside the partition, then n
RECURSIVE BreaksBelow(_, _)
BreaksBelow(change_points, n) ==
    IF change_points = <<>> THEN <<>>
    ELSE IF Head(change_points) < n
    THEN <<Head(change_points)>> \o BreaksBelow(Tail(change_points), n)
    ELSE BreaksBelow(Tail(change_points), n)
BackendOn(backend, n) ==
    IF backend.mode = "ok"
    THEN [backend EXCEPT !.change_points = Append(BreaksBelow(@, n), n)]
    ELSE backend

\* the loop of detect_by_service over the first k services
RECURSIVE ByServiceUpTo(_, _, _, _, _, _)
ByServiceUpTo(cols, frame, values, k, sens, backend) ==
    IF k = 0
    THEN [outcome |-> "returned", value |-> <<>>, logged |-> "none"]
    ELSE LET results == ByServiceUpTo(cols, frame, values, k - 1, sens, backend)
             service_data == Partition(frame, values[k])
             detected == EnsembleDetectCall(cols, service_data, sens,
                                            BackendOn(backend, Len(service_data)))
         IN  IF results.outcome = "raised" THEN results
             ELSE IF Len(service_data) < 7 THEN results
             ELSE IF detected.outcome = "raised" THEN detected
             ELSE [results EXCEPT !.value =
                      Append(@, [key |-> values[k], value |-> detected.value])]

\* EnsembleDetector.detect_by_service(time_series)
detect_by_service(cols, frame, sens, backend) ==
    IF "service" \notin cols
    THEN Raised("ValueError", "service")
    ELSE ByServiceUpTo(cols, frame, UniqueServices(frame, Len(frame)),
                       Len(UniqueServices(frame, Len(frame))), sens, backend)

\* the values of a segment in ascending order
RECURSIVE SortedValues(_)
SortedValues(values) ==
    IF values = <<>> THEN <<>>
    ELSE LET m == CHOOSE k \in 1..Len(values) :
                     \A j \in 1..Len(values) : values[k] <= values[j]
         IN  <<values[m]>>
             \o SortedValues(SubSeq(values, 1, m - 1)
                             \o SubSeq(values, m + 1, Len(values)))

\* np.median of a non-empty segment
Median(values) ==
    LET v == SortedValues(values)
        n == Len(v)
    IN  IF n % 2 = 1 THEN RatInt(v[(n + 1) \div 2])
        ELSE Rat(v[n \div 2] + v[n \div 2 + 1], 2)

\* the dict of one segment, signal[start_idx:end_idx]; np.std is kept as
\* its square, the population variance
Segment(sorted, i, start_idx, end_idx) ==
    LET segment_values == Slice(Costs(sorted), start_idx, end_idx)
        v == SortedValues(segment_values)
        n == Len(segment_values)
    IN  [ segment_number |-> i,
          start_date     |-> sorted[start_idx + 1].date,
          end_date       |-> sorted[end_idx].date,
          mean           |-> Rat(Sum(segment_values), n),
          median         |-> Median(segment_values),
          std_squared    |-> Rat(n * SumSq(segment_values)
                                 - Sum(segment_values) * Sum(segment_values), n * n),
          min            |-> v[1],
          max            |-> v[n],
          total          |-> Sum(segment_values),
          length         |-> n ]

\* the loop over the first k pairs of segments_bounds
RECURSIVE SegmentsUpTo(_, _, _)
SegmentsUpTo(sorted, segments_bounds, k) ==
    IF k = 0
    THEN [outcome |-> "returned", value |-> <<>>, logged |-> "none"]
    ELSE LET segments == SegmentsUpTo(sorted, segments_bounds, k - 1)
             start_idx == segments_bounds[k]
             end_idx == segments_bounds[k + 1]
         IN  IF segments.outcome = "raised" THEN segments
             ELSE IF start_idx >= Len(sorted)
             THEN Raised("KeyError", "start_idx")
             ELSE IF end_idx - 1 < 0 \/ end_idx - 1 >= Len(sorted)
             THEN Raised("KeyError", "end_idx")
             ELSE IF start_idx >= end_idx
             THEN Raised("ValueError", "zero-size array")
             ELSE [segments EXCEPT !.value =
                      Append(@, Segment(sorted, k, start_idx, end_idx))]

\* ChangepointDetector.analyze_segment_costs(time_series, change_points),
\* for change_points that are natural numbers
analyze_segment_costs(cols, frame, change_points) ==
    IF "date" \notin cols
    THEN Raised("KeyError", "date")
    ELSE IF "cost" \notin cols
    THEN Raised("KeyError", "cost")
    ELSE SegmentsUpTo(SortByDate(frame),
                      <<0>> \o change_points \o <<Len(frame)>>,
                      Len(change_points) + 1)

----------------------------------------------------------------------------
(* The frames, configurations and backends the calls are made with *)

\* a frame with one row every `step` hours
Frame(costs, step) ==
    [i \in 1..Len(costs) |-> [date |-> (i - 1) * step, cost |-> costs[i]]]

\* every series of at most MaxLen costs in 0..MaxCost, one row a day
SmallFrames ==
    { Frame(c, HoursPerDay) : c \in UNION { [1..k -> 0..MaxCost] : k \in 0..MaxLen } }

\* 20 days at 100, one day at s, then t more days at 100
SpikeCosts(s, t) == [i \in 1..(21 + t) |-> IF i = 21 THEN s ELSE 100]
SpikeValues == {0, 50, 120, 130, 160, 500}
SpikeFrames ==
    { Frame(SpikeCosts(s, t), HoursPerDay) : s \in SpikeValues, t \in 0..MaxTail }

\* p rows at u, then rows at v, n rows in all
StepCosts(u, v, p, n) == [i \in 1..n |-> IF i <= p THEN u ELSE v]
CpCosts == {-2, 0, 1, 3}
CpFrames ==
    UNION { { Frame(StepCosts(u, v, p, n), HoursPerDay) :
                u \in CpCosts, v \in CpCosts, p \in 0..n }
            : n \in 0..MaxCpLen }

\* 20 days at 50, then 20 days at 150
ShiftFrame == Frame(StepCosts(50, 150, 20, 40), HoursPerDay)

\* n rows at 1 but for the rows in spikes, which are at 5
EnsCosts(n, spikes) == [i \in 1..n |-> IF i \in spikes THEN 5 ELSE 1]
EnsSteps == {12, 24, 84}
EnsFrames ==
    UNION { { Frame(EnsCosts(n, spikes), step) :
                spikes \in SUBSET (Max(7, n - MaxFree + 1)..n), step \in EnsSteps }
            : n \in 7..MaxEnsLen }

RECURSIVE SortedSeq(_)
SortedSeq(S) ==
    IF S = {} THEN <<>>
    ELSE LET m == CHOOSE x \in S : \A y \in S : x <= y
         IN  <<m>> \o SortedSeq(S \ {m})

\* what Pelt(min_size, jump=5).predict can return for a signal of n points:
\* ascending break indices that are multiples of the jump, then n itself
BreakLists(n) ==
    { Append(SortedSeq(S), n) : S \in SUBSET { k \in 1..(n - 1) : k % 5 = 0 } }

Backends(n) ==
    { [mode |-> "import_error", change_points |-> <<>>],
      [mode |-> "raises", change_points |-> <<>>] }
    \cup { [mode |-> "ok", change_points |-> bk] : bk \in BreakLists(n) }

NoBackend == [mode |-> "ok", change_points |-> <<>>]

Magnitudes == { Rat(k, 2) : k \in 0..(2 * MaxMagnitude) }

NoSeverity == [baseline |-> "none", changepoint |-> "none"]

\* the public calls of the three detectors
DetectorCalls ==
    { "BaselineDetector.detect",
      "BaselineDetector.detect_by_dimension",
      "ChangepointDetector.detect",
      "ChangepointDetector.analyze_segment_costs",
      "EnsembleDetector.detect",
      "EnsembleDetector.detect_by_service" }

\* change_points handed to analyze_segment_costs for a frame of n rows: a
\* break inside the frame, and one at its end; for a frame of at most 5 rows,
\* every list of at most 3 indices in 0..n
SegmentBreaks(n) ==
    IF n <= 5
    THEN UNION { [1..k -> 0..n] : k \in 0..3 }
    ELSE { <<k>> : k \in { j \in {2} : j < n } } \cup { <<n>> }

\* the frame with a service column holding the same value in every row
Tagged(frame, service) ==
    [i \in 1..Len(frame) |->
        [date |-> frame[i].date, cost |-> frame[i].cost, service |-> service]]

\* the rows of two frames in one frame: one after the other, or in turns
RECURSIVE Interleaved(_, _)
Interleaved(fa, fb) ==
    IF fa = <<>> THEN fb
    ELSE IF fb = <<>> THEN fa
    ELSE <<Head(fa), Head(fb)>> \o Interleaved(Tail(fa), Tail(fb))
Merged(fa, fb, how) == IF how = "concat" THEN fa \o fb ELSE Interleaved(fa, fb)
GroupedColumns == {"date", "cost", "service"}

----------------------------------------------------------------------------
(* BaselineDetector.calculate_cost_forecast *)

\* a float that is not a number
NaN == [num |-> 0, den |-> 0]

\* recent[value_col].diff().mean(): the mean of the differences of
\* consecutive values, NaN when there is none
DailyChange(recent) ==
    IF Len(recent) < 2 THEN NaN
    ELSE Rat(recent[Len(recent)] - recent[1], Len(recent) - 1)

\* last_value + k * daily_change
Extrapolated(last_value, k, daily_change) ==
    IF daily_change = NaN THEN NaN
    ELSE Rat(last_value * daily_change.den + k * daily_change.num, daily_change.den)

\* time_series.tail(n)
LastRows(signal, n) == SubSeq(signal, Max(1, Len(signal) - n + 1), Len(signal))

\* BaselineDetector.calculate_cost_forecast(time_series, days_ahead): the rows
\* of the returned frame, for min_data_points >= 1 and days_ahead >= 0
calculate_cost_forecast(cols, frame, minp, days_ahead) ==
    IF Len(frame) < minp
    THEN Raised("ValueError", "Insufficient data for forecasting")
    ELSE IF "date" \notin cols THEN Raised("KeyError", "date")
    ELSE IF "cost" \notin cols THEN Raised("KeyError", "cost")
    ELSE LET sorted == SortByDate(frame)
             daily_change == DailyChange(LastRows(Costs(sorted), 7))
             last_date == sorted[Len(sorted)].date
             last_value == sorted[Len(sorted)].cost
         IN  [outcome |-> "returned",
              value |-> [i \in 1..days_ahead |->
                           [date |-> last_date + i * HoursPerDay,
                            cost_forecast |-> Extrapolated(last_value, i, daily_change)]],
              logged |-> "none"]

----------------------------------------------------------------------------
(* ApprovalEngine.  Request ids are uuid4 strings; the model numbers the    *)
(* requests in the order of their creation, so an id is never given twice.  *)
(* Savings are whole dollars.                                               *)

engine_vars == <<approval_requests, approval_log, route_calls, executed,
                 engine_result>>

\* ApprovalStatus
ApprovalStatus == {"pending", "approved", "rejected", "expired"}

\* auto_approval_rules["allowed_actions"], ["require_manual_approval"]
allowed_actions == {"delete_snapshots", "stop_instances"}
require_manual_approval == {"delete_volumes", "terminate_instances"}

\* mutant: savings equal to the limit approved as well
CheckAutoApprovalUpToLimit(action_type, estimated_savings, risk_level) ==
    /\ risk_level # "high"
    /\ action_type \notin require_manual_approval
    /\ action_type \in allowed_actions
    /\ estimated_savings <= max_cost_impact

\* ApprovalEngine._check_auto_approval
_check_auto_approval(action_type, estimated_savings, risk_level) ==
    IF risk_level = "high" THEN FALSE
    ELSE IF action_type \in require_manual_approval THEN FALSE
    ELSE IF action_type \in allowed_actions /\ estimated_savings < max_cost_impact
    THEN TRUE
    ELSE FALSE

\* the request dict built by request_approval
NewRequest(action_type, estimated_savings, risk_level) ==
    LET auto_approved == _check_auto_approval(action_type, estimated_savings, risk_level)
    IN  [ action_type       |-> action_type,
          estimated_savings |-> estimated_savings,
          risk_level        |-> risk_level,
          status            |-> IF auto_approved THEN "approved" ELSE "pending",
          auto_approved     |-> auto_approved,
          decided_by        |-> IF auto_approved THEN "system" ELSE "nobody" ]

\* "request_id not in self.approval_requests"
Unknown(request_id) == request_id \notin DOMAIN approval_requests

\* mutant: a known request may be decided whatever its status
MayDecideAnyKnown(request_id) == ~Unknown(request_id)

\* approve and reject go on for a known request that is pending, and raise
\* ValueError otherwise
MayDecide(request_id) ==
    /\ ~Unknown(request_id)
    /\ approval_requests[request_id].status = "pending"

\* ApprovalEngine.is_approved
is_approved(request_id) ==
    IF Unknown(request_id) THEN FALSE
    ELSE approval_requests[request_id].status = "approved"

\* what a call gave its caller
Result(call, request_id, how) ==
    [call |-> call, request_id |-> request_id, outcome |-> how]

EngineIdle ==
    /\ approval_requests = <<>>
    /\ approval_log = <<>>
    /\ route_calls = {}
    /\ executed = <<>>
    /\ engine_result = Result("none", 0, "none")

----------------------------------------------------------------------------
(* Initial states: the caller has chosen the call and its arguments *)

\* the caller's frame and the detectors' fields, as a record
Snapshot ==
    [ time_series        |-> time_series,
      columns            |-> columns,
      baseline_days      |-> baseline_days,
      min_data_points    |-> min_data_points,
      sensitivity        |-> sensitivity,
      min_segment_length |-> min_segment_length ]

PlainColumns == {"date", "cost"}

\* daily costs whose fourth value is on the very_high upper bound of its
\* four-row window and whose last value is below the lower bound of its window
BoundaryFrame == Frame(<<0, 0, 0, 1, 1, 1, 1, 1, 0>>, HoursPerDay)

NotCalled ==
    /\ outcome = "none" /\ ret = <<>> /\ logged = "none"
    /\ given = Snapshot
    /\ history = <<>>
    /\ tie_order = "as_given"
    /\ EngineIdle

InitBaseline ==
    /\ op = "BaselineDetector.detect"
    /\ \/ /\ time_series \in SmallFrames
          /\ baseline_days \in 1..MaxWindow \cup {14}
          /\ min_data_points \in 1..MaxWindow \cup {7}
       \/ /\ time_series \in SpikeFrames
          /\ baseline_days = 14
          /\ min_data_points = 7
       \/ /\ time_series = BoundaryFrame
          /\ baseline_days = 5
          /\ min_data_points \in 1..MaxWindow
    /\ sensitivity \in Sensitivities
    /\ min_segment_length = 3
    /\ rpt = NoBackend
    /\ magnitude = RatZero
    /\ columns = PlainColumns
    /\ NotCalled

InitChangepoint ==
    /\ op = "ChangepointDetector.detect"
    /\ \/ /\ time_series \in CpFrames
          /\ min_segment_length \in 1..MaxMinSeg
       \/ /\ time_series = ShiftFrame
          /\ min_segment_length = 3
    /\ rpt \in Backends(Len(time_series))
    /\ baseline_days = 14
    /\ min_data_points = 7
    /\ sensitivity = "medium"
    /\ magnitude = RatZero
    /\ columns = PlainColumns
    /\ NotCalled

InitEnsemble ==
    /\ op = "EnsembleDetector.detect"
    /\ time_series \in EnsFrames
    /\ sensitivity \in Sensitivities
    /\ rpt \in Backends(Len(time_series))
    /\ baseline_days = 14
    /\ min_data_points = 7
    /\ min_segment_length = 3
    /\ magnitude = RatZero
    /\ columns = PlainColumns
    /\ NotCalled

InitSeverity ==
    /\ op = "severity"
    /\ magnitude \in Magnitudes
    /\ time_series = <<>>
    /\ baseline_days = 14
    /\ min_data_points = 7
    /\ sensitivity = "medium"
    /\ min_segment_length = 3
    /\ rpt = NoBackend
    /\ columns = PlainColumns
    /\ outcome = "none" /\ ret = NoSeverity /\ logged = "none"
    /\ given = Snapshot
    /\ history = <<>>
    /\ tie_order = "as_given"
    /\ EngineIdle

Init == InitBaseline \/ InitChangepoint \/ InitEnsemble \/ InitSeverity

\* frames of 0, 3, 7 and 14 rows, handed over with any of their columns
\* missing
ValidationFrames ==
    { Tagged(Frame(StepCosts(1, 3, n \div 2, n), HoursPerDay), "a") : n \in {0, 3, 7, 14} }

InitValidation ==
    /\ op \in DetectorCalls \ {"ChangepointDetector.analyze_segment_costs"}
    /\ time_series \in ValidationFrames
    /\ columns \in SUBSET GroupedColumns
    /\ \/ baseline_days = 14 /\ min_data_points = 7
       \/ baseline_days = 5 /\ min_data_points = 5
    /\ sensitivity = "very_high"
    /\ min_segment_length \in {1, 3}
    /\ rpt \in { BackendOn(b, Len(time_series)) : b \in Backends(0) }
    /\ magnitude = RatZero
    /\ NotCalled

\* the backend is not installed, or it reports breaks at 5 and 10
SessionBackends ==
    { [mode |-> "import_error", change_points |-> <<>>],
      [mode |-> "ok", change_points |-> <<5, 10>>] }

\* rows of service "a" and rows of service "b" in one frame, one service
\* after the other or in turns
GroupedFrames(FramesOfA, CostsOfB) ==
    { Merged(Tagged(fa, "a"), Tagged(Frame(cb, HoursPerDay), "b"), how) :
        fa \in FramesOfA, cb \in CostsOfB, how \in {"concat", "interleave"} }

\* the frames of EnsFrames with one row a day
DailyEnsFrames == { f \in EnsFrames : f[2].date = HoursPerDay }

InitGrouped ==
    /\ \/ /\ op = "BaselineDetector.detect_by_dimension"
          /\ time_series \in GroupedFrames(SmallFrames,
                                           {<<>>, <<1>>, <<0, 0, 0, 0, 1>>})
          /\ baseline_days \in {2, 5}
          /\ min_data_points \in {1, 2, 5}
          /\ sensitivity = "very_high"
          /\ rpt = NoBackend
       \/ /\ op = "EnsembleDetector.detect_by_service"
          /\ time_series \in GroupedFrames(DailyEnsFrames,
                                           {<<>>, <<1, 1, 1>>, <<1, 1, 1, 1, 1, 1, 5>>})
          /\ baseline_days = 14
          /\ min_data_points = 7
          /\ sensitivity = "high"
          /\ rpt \in SessionBackends
    /\ min_segment_length = 3
    /\ columns = GroupedColumns
    /\ magnitude = RatZero
    /\ NotCalled

\* the rows of a frame in the opposite order
Reversed(frame) == [i \in 1..Len(frame) |-> frame[Len(frame) + 1 - i]]

\* frames a caller keeps over several calls: two services in one frame, one
\* after the other, and a frame without a service column whose rows are in
\* descending date order
SessionFrames ==
    { [rows    |-> Merged(Tagged(Frame(EnsCosts(8, {8}), HoursPerDay), "a"),
                          Tagged(Frame(<<0, 0, 0, 0, 1>>, HoursPerDay), "b"),
                          "concat"),
       columns |-> GroupedColumns],
      [rows    |-> Reversed(Frame(StepCosts(1, 3, 10, 14), HoursPerDay)),
       columns |-> PlainColumns] }

InitSession ==
    /\ op \in DetectorCalls
    /\ \E f \in SessionFrames : time_series = f.rows /\ columns = f.columns
    /\ baseline_days = 5 /\ min_data_points = 5 /\ sensitivity = "very_high"
    /\ min_segment_length = 3
    /\ rpt \in { BackendOn(b, Len(time_series)) : b \in SessionBackends }
    /\ magnitude = RatZero
    /\ NotCalled

\* n daily costs: 1, but for s on the sixth day and v from the eleventh on
BumpyCosts(s, v, n) ==
    [i \in 1..n |-> IF i = 6 THEN s ELSE IF i <= 10 THEN 1 ELSE v]

\* one row per cost; the first six rows share their date in groups of d
Dated(costs, d) ==
    [i \in 1..Len(costs) |->
        [date |-> (IF i <= 6 THEN (i - 1) \div d ELSE i - 1) * HoursPerDay,
         cost |-> costs[i]]]

\* the rows at odd positions, then the rows at even positions
Riffled(frame) ==
    [i \in 1..Len(frame) |->
        IF 2 * i - 1 <= Len(frame) THEN frame[2 * i - 1]
        ELSE frame[2 * (i - (Len(frame) + 1) \div 2)]]

Reordered(frame, how) ==
    CASE how = "given" -> frame
      [] how = "reversed" -> Reversed(frame)
      [] how = "riffled" -> Riffled(frame)

\* frames whose rows are in date order or not, with and without rows of
\* equal date
UnsortedFrames ==
    { Reordered(Dated(BumpyCosts(s, v, n), d), how) :
        s \in {1, 9}, v \in {1, 5}, n \in {11, 22}, d \in 1..3,
        how \in {"given", "reversed", "riffled"} }

InitUnsorted ==
    /\ op = "BaselineDetector.detect"
    /\ time_series \in UnsortedFrames
    /\ baseline_days = 5
    /\ min_data_points \in {2, 5}
    /\ sensitivity = "very_high"
    /\ min_segment_length = 3
    /\ rpt \in SessionBackends
    /\ magnitude = RatZero
    /\ columns = PlainColumns
    /\ outcome = "none" /\ ret = <<>> /\ logged = "none"
    /\ given = Snapshot
    /\ history = <<>>
    /\ tie_order \in TieOrders
    /\ EngineIdle

\* five daily costs, credits (negative costs) among them
SignedCosts == {-3, -1, 0, 4}
SignedFrames == { Frame(c, HoursPerDay) : c \in [1..5 -> SignedCosts] }

InitSigned ==
    /\ op = "BaselineDetector.detect"
    /\ time_series \in SignedFrames
    /\ baseline_days = 5
    /\ min_data_points \in {2, 5}
    /\ sensitivity \in Sensitivities \ {"unknown"}
    /\ min_segment_length = 3
    /\ rpt = NoBackend
    /\ magnitude = RatZero
    /\ columns = PlainColumns
    /\ NotCalled

\* at most five daily costs, in date order or the other way round
SegmentFrames ==
    UNION { { Frame(c, HoursPerDay) : c \in [1..k -> {0, 3}] } : k \in 0..5 }
    \cup { Reversed(Frame(c, HoursPerDay)) : c \in [1..4 -> {0, 3}] }

InitSegments ==
    /\ op = "ChangepointDetector.analyze_segment_costs"
    /\ time_series \in SegmentFrames
    /\ baseline_days = 14
    /\ min_data_points = 7
    /\ sensitivity = "medium"
    /\ min_segment_length = 3
    /\ rpt = NoBackend
    /\ magnitude = RatZero
    /\ columns = PlainColumns
    /\ NotCalled

\* at most eight daily costs, in date order or the other way round
ForecastFrames ==
    UNION { { Frame(c, HoursPerDay) : c \in [1..k -> {0, 3}] } : k \in 0..8 }
    \cup { Reversed(Frame(c, HoursPerDay)) : c \in [1..4 -> {0, 3}] }

InitForecast ==
    /\ op = "BaselineDetector.calculate_cost_forecast"
    /\ time_series \in ForecastFrames
    /\ baseline_days = 14
    /\ min_data_points \in {1, 3, 7}
    /\ sensitivity = "medium"
    /\ min_segment_length = 3
    /\ rpt = NoBackend
    /\ magnitude = RatZero
    /\ columns = PlainColumns
    /\ NotCalled

\* n daily costs at b, but for the rows in `rows`, which are at v, or at v and
\* -v in turns
OutlierCosts(n, b, rows, v, turns) ==
    [i \in 1..n |-> IF i \notin rows THEN b
                    ELSE IF turns /\ i % 2 = 0 THEN -v ELSE v]

\* series of 7 to 16 days with up to three outliers among the last three
\* days, and every series of 14 days of costs 0 and 1 that starts with 0
OutlierFrames ==
    UNION { { Frame(OutlierCosts(n, b, rows, v, turns), HoursPerDay) :
                b \in {0, 5}, rows \in SUBSET ((n - 2)..n),
                v \in {-100, 1, 100}, turns \in BOOLEAN }
            : n \in 7..16 }
    \cup { Frame(<<0>> \o c, HoursPerDay) : c \in [1..13 -> {0, 1}] }

\* BaselineDetector(sensitivity=...): baseline_days and min_data_points at
\* their default values
InitDefaults ==
    /\ op = "BaselineDetector.detect"
    /\ time_series \in OutlierFrames
    /\ baseline_days = 14
    /\ min_data_points = 7
    /\ sensitivity \in {"low", "medium"}
    /\ min_segment_length = 3
    /\ rpt = NoBackend
    /\ magnitude = RatZero
    /\ columns = PlainColumns
    /\ NotCalled

\* the arguments request_approval is called with: every combination of the
\* listed values when the call is looked at by itself, three of them when
\* requests are followed through approve and reject
RequestInputs ==
    IF op = "ApprovalEngine.request_approval"
    THEN { <<action_type, estimated_savings, risk_level>> :
             action_type \in allowed_actions \cup require_manual_approval
                             \cup {"resize_instances"},
             estimated_savings \in {-1, 0, 99, 100, 101},
             risk_level \in {"low", "medium", "high"} }
    ELSE { <<"stop_instances", 99, "medium">>,
           <<"stop_instances", 100, "medium">>,
           <<"delete_volumes", 50, "high">> }

Approvers == {"ops"}

\* no detector is called while the engine is looked at
InitEngineFor(caller) ==
    /\ op = caller
    /\ time_series = <<>>
    /\ baseline_days = 14
    /\ min_data_points = 7
    /\ sensitivity = "medium"
    /\ min_segment_length = 3
    /\ rpt = NoBackend
    /\ magnitude = RatZero
    /\ columns = PlainColumns
    /\ NotCalled

InitEngine == InitEngineFor("ApprovalEngine")
InitAutoApproval == InitEngineFor("ApprovalEngine.request_approval")
InitRoutes == InitEngineFor("action_routes")

----------------------------------------------------------------------------
(* The calls *)

inputs == <<baseline_days, min_data_points, sensitivity,
            min_segment_length, rpt, magnitude, op, columns, given, tie_order,
            engine_vars>>

\* the record of a completed call: its arguments besides the frame, and
\* what the caller got
Completed(args, r) ==
    [op |-> op, args |-> args, outcome |-> r.outcome, value |-> r.value]

\* BaselineDetector.detect(time_series)
Detect ==
    /\ op = "BaselineDetector.detect" /\ outcome = "none"
    /\ LET r == BaselineDetectCall(columns, time_series, baseline_days,
                                   min_data_points, sensitivity)
       IN  /\ outcome' = r.outcome
           /\ ret' = r.value
           /\ logged' = r.logged
           /\ history' = Append(history, Completed(<<>>, r))
    /\ time_series' = CallerFrameAfterCall(time_series)
    /\ UNCHANGED inputs

\* ChangepointDetector.detect(time_series)
CpDetect ==
    /\ op = "ChangepointDetector.detect" /\ outcome = "none"
    /\ LET r == ChangepointDetectCall(columns, time_series, min_segment_length, rpt)
       IN  /\ outcome' = r.outcome
           /\ ret' = r.value
           /\ logged' = r.logged
           /\ history' = Append(history, Completed(<<>>, r))
    /\ time_series' = CallerFrameAfterCall(time_series)
    /\ UNCHANGED inputs

\* EnsembleDetector.detect(time_series)
EnsDetect ==
    /\ op = "EnsembleDetector.detect" /\ outcome = "none"
    /\ LET r == EnsembleDetectCall(columns, time_series, sensitivity, rpt)
       IN  /\ outcome' = r.outcome
           /\ ret' = r.value
           /\ logged' = r.logged
           /\ history' = Append(history, Completed(<<>>, r))
    /\ time_series' = CallerFrameAfterCall(time_series)
    /\ UNCHANGED inputs

\* BaselineDetector._calculate_severity(magnitude)
CalculateSeverity ==
    /\ op = "severity" /\ ret.baseline = "none"
    /\ ret' = [ret EXCEPT !.baseline = _calculate_severity(magnitude)]
    /\ outcome' = "returned"
    /\ UNCHANGED <<inputs, logged, time_series, history>>

\* ChangepointDetector._calculate_change_severity(magnitude)
CalculateChangeSeverity ==
    /\ op = "severity" /\ ret.changepoint = "none"
    /\ ret' = [ret EXCEPT !.changepoint = _calculate_change_severity(magnitude)]
    /\ outcome' = "returned"
    /\ UNCHANGED <<inputs, logged, time_series, history>>

\* BaselineDetector.detect_by_dimension(time_series, "service")
DetectByDimension ==
    /\ op = "BaselineDetector.detect_by_dimension" /\ outcome = "none"
    /\ LET r == detect_by_dimension(columns, time_series, baseline_days,
                                    min_data_points, sensitivity)
       IN  /\ outcome' = r.outcome
           /\ ret' = r.value
           /\ logged' = r.logged
           /\ history' = Append(history, Completed(<<>>, r))
    /\ time_series' = CallerFrameAfterCall(time_series)
    /\ UNCHANGED inputs

\* EnsembleDetector.detect_by_service(time_series)
DetectByService ==
    /\ op = "EnsembleDetector.detect_by_service" /\ outcome = "none"
    /\ LET r == detect_by_service(columns, time_series, sensitivity, rpt)
       IN  /\ outcome' = r.outcome
           /\ ret' = r.value
           /\ logged' = r.logged
           /\ history' = Append(history, Completed(<<>>, r))
    /\ time_series' = CallerFrameAfterCall(time_series)
    /\ UNCHANGED inputs

\* ChangepointDetector.analyze_segment_costs(time_series, change_points)
AnalyzeSegmentCosts ==
    /\ op = "ChangepointDetector.analyze_segment_costs" /\ outcome = "none"
    /\ \E change_points \in SegmentBreaks(Len(time_series)) :
          LET r == analyze_segment_costs(columns, time_series, change_points)
          IN  /\ outcome' = r.outcome
              /\ ret' = r.value
              /\ logged' = r.logged
              /\ history' = Append(history, Completed(change_points, r))
    /\ time_series' = CallerFrameAfterCall(time_series)
    /\ UNCHANGED inputs

\* BaselineDetector.calculate_cost_forecast(time_series, days_ahead)
CalculateCostForecast ==
    /\ op = "BaselineDetector.calculate_cost_forecast" /\ outcome = "none"
    /\ \E days_ahead \in 0..3 :
          LET r == calculate_cost_forecast(columns, time_series,
                                           min_data_points, days_ahead)
          IN  /\ outcome' = r.outcome
              /\ ret' = r.value
              /\ logged' = r.logged
              /\ history' = Append(history, Completed(<<days_ahead>>, r))
    /\ time_series' = CallerFrameAfterCall(time_series)
    /\ UNCHANGED inputs

\* the caller, holding the same detectors and the same frame, calls again
CallAgain ==
    /\ outcome # "none"
    /\ Len(history) < MaxCalls
    /\ op' \in DetectorCalls
    /\ outcome' = "none" /\ ret' = <<>> /\ logged' = "none"
    /\ UNCHANGED <<time_series, baseline_days, min_data_points, sensitivity,
                   min_segment_length, rpt, magnitude, columns, given, history,
                   tie_order, engine_vars>>

Next ==
    \/ Detect
    \/ CpDetect
    \/ EnsDetect
    \/ CalculateSeverity
    \/ CalculateChangeSeverity

Spec == Init /\ [][Next]_vars

SpecBaseline == InitBaseline /\ [][Detect]_vars
SpecChangepoint == InitChangepoint /\ [][CpDetect]_vars
SpecEnsemble == InitEnsemble /\ [][EnsDetect]_vars

GroupedNext ==
    \/ DetectByDimension
    \/ DetectByService
SpecGrouped == InitGrouped /\ [][GroupedNext]_vars

ValidationNext ==
    \/ Detect
    \/ DetectByDimension
    \/ CpDetect
    \/ EnsDetect
    \/ DetectByService
SpecValidation == InitValidation /\ [][ValidationNext]_vars

SessionNext ==
    \/ Detect
    \/ DetectByDimension
    \/ CpDetect
    \/ AnalyzeSegmentCosts
    \/ EnsDetect
    \/ DetectByService
    \/ CallAgain
SpecSession == InitSession /\ [][SessionNext]_vars

UnsortedNext ==
    \/ Detect
    \/ CpDetect
    \/ CallAgain
SpecUnsorted == InitUnsorted /\ [][UnsortedNext]_vars

SpecSigned == InitSigned /\ [][Detect]_vars
SpecSegments == InitSegments /\ [][AnalyzeSegmentCosts]_vars
SpecForecast == InitForecast /\ [][CalculateCostForecast]_vars
SpecDefaults == InitDefaults /\ [][Detect]_vars

----------------------------------------------------------------------------
(* The calls of ApprovalEngine and the remediation routes *)

detector_vars == <<time_series, baseline_days, min_data_points, sensitivity,
                   min_segment_length, rpt, magnitude, op, outcome, ret, logged,
                   columns, given, history, tie_order>>

\* ApprovalEngine.request_approval(action_type, resources, estimated_savings,
\* risk_level)
RequestApproval ==
    /\ op \in {"ApprovalEngine", "ApprovalEngine.request_approval"}
    /\ Len(approval_requests) < MaxRequests
    /\ \E args \in RequestInputs :
          approval_requests' =
              Append(approval_requests, NewRequest(args[1], args[2], args[3]))
    /\ engine_result' =
          Result("request_approval", Len(approval_requests) + 1, "returned")
    /\ UNCHANGED <<approval_log, route_calls, executed, detector_vars>>

\* the request after approve or reject: its status and who decided
Decided(request_id, status, approver) ==
    [approval_requests EXCEPT ![request_id].status = status,
                              ![request_id].decided_by = approver]

\* the entry approve and reject add to the log
LogEntry(request_id, action, approver) ==
    [request_id |-> request_id, action |-> action, approver |-> approver]

\* ApprovalEngine.approve(request_id, approver): ValueError for a request
\* that is unknown or not pending
Approve ==
    /\ op \in {"ApprovalEngine", "action_routes"}
    /\ \E request_id \in 1..MaxRequests, approver \in Approvers :
          IF MayDecide(request_id)
          THEN /\ approval_requests' = Decided(request_id, "approved", approver)
               /\ approval_log' =
                     Append(approval_log, LogEntry(request_id, "approve", approver))
               /\ engine_result' = Result("approve", request_id, "returned")
          ELSE /\ engine_result' = Result("approve", request_id, "raised")
               /\ UNCHANGED <<approval_requests, approval_log>>
    /\ UNCHANGED <<route_calls, executed, detector_vars>>

\* ApprovalEngine.reject(request_id, approver, reason): ValueError for a
\* request that is unknown or not pending
Reject ==
    /\ op \in {"ApprovalEngine", "action_routes"}
    /\ \E request_id \in 1..MaxRequests, approver \in Approvers :
          IF MayDecide(request_id)
          THEN /\ approval_requests' = Decided(request_id, "rejected", approver)
               /\ approval_log' =
                     Append(approval_log, LogEntry(request_id, "reject", approver))
               /\ engine_result' = Result("reject", request_id, "returned")
          ELSE /\ engine_result' = Result("reject", request_id, "raised")
               /\ UNCHANGED <<approval_requests, approval_log>>
    /\ UNCHANGED <<route_calls, executed, detector_vars>>

\* a remediation route between the return of its request_approval call and
\* its is_approved call
RouteCall(route, request_id) == [route |-> route, request_id |-> request_id]

\* the playbook call a route made for a request
Execution(playbook, request_id) == [playbook |-> playbook, request_id |-> request_id]

\* stop_ec2_instances (POST /ec2/stop), up to the return of request_approval
StopEc2Requests ==
    /\ op = "action_routes"
    /\ Len(approval_requests) < MaxRequests
    /\ approval_requests' =
          Append(approval_requests, NewRequest("stop_instances", 100, "medium"))
    /\ route_calls' = route_calls \cup
          { RouteCall("stop_ec2_instances", Len(approval_requests) + 1) }
    /\ engine_result' =
          Result("request_approval", Len(approval_requests) + 1, "returned")
    /\ UNCHANGED <<approval_log, executed, detector_vars>>

\* stop_ec2_instances, from is_approved on: the playbook is called if the
\* request is approved, pending_approval is returned if not
StopEc2Checks ==
    /\ op = "action_routes"
    /\ \E c \in route_calls :
          /\ c.route = "stop_ec2_instances"
          /\ route_calls' = route_calls \ {c}
          /\ IF is_approved(c.request_id)
             THEN /\ executed' =
                        Append(executed, Execution("stop_idle_instances", c.request_id))
                  /\ engine_result' = Result(c.route, c.request_id, "executed")
             ELSE /\ engine_result' = Result(c.route, c.request_id, "pending_approval")
                  /\ UNCHANGED executed
    /\ UNCHANGED <<approval_requests, approval_log, detector_vars>>

\* delete_ebs_volumes (POST /ebs/delete), up to the return of request_approval
DeleteEbsRequests ==
    /\ op = "action_routes"
    /\ Len(approval_requests) < MaxRequests
    /\ approval_requests' =
          Append(approval_requests, NewRequest("delete_volumes", 50, "high"))
    /\ route_calls' = route_calls \cup
          { RouteCall("delete_ebs_volumes", Len(approval_requests) + 1) }
    /\ engine_result' =
          Result("request_approval", Len(approval_requests) + 1, "returned")
    /\ UNCHANGED <<approval_log, executed, detector_vars>>

\* delete_ebs_volumes, from is_approved on
DeleteEbsChecks ==
    /\ op = "action_routes"
    /\ \E c \in route_calls :
          /\ c.route = "delete_ebs_volumes"
          /\ route_calls' = route_calls \ {c}
          /\ IF is_approved(c.request_id)
             THEN /\ executed' =
                        Append(executed,
                               Execution("delete_unattached_volumes", c.request_id))
                  /\ engine_result' = Result(c.route, c.request_id, "executed")
             ELSE /\ engine_result' = Result(c.route, c.request_id, "pending_approval")
                  /\ UNCHANGED executed
    /\ UNCHANGED <<approval_requests, approval_log, detector_vars>>

EngineNext ==
    \/ RequestApproval
    \/ Approve
    \/ Reject
SpecEngine == InitEngine /\ [][EngineNext]_vars

SpecAutoApproval == InitAutoApproval /\ [][RequestApproval]_vars

\* the routes run in the threads of the server's pool: the two engine calls
\* of one request may be separated by the calls of another
RoutesNext ==
    \/ StopEc2Requests
    \/ StopEc2Checks
    \/ DeleteEbsRequests
    \/ DeleteEbsChecks
    \/ Approve
    \/ Reject
SpecRoutes == InitRoutes /\ [][RoutesNext]_vars

----------------------------------------------------------------------------
(* Properties *)

BaselineCalled == op = "BaselineDetector.detect" /\ outcome # "none"
ChangepointCalled == op = "ChangepointDetector.detect" /\ outcome # "none"
EnsembleCalled == op = "EnsembleDetector.detect" /\ outcome # "none"

\* every row of the frame has the same cost
IsConstant(frame) == \A i, j \in 1..Len(frame) : frame[i].cost = frame[j].cost

\* C1: a series whose values are all equal and that has at least
\* min_data_points rows makes BaselineDetector.detect return an empty list,
\* for every sensitivity and every baseline window.
C1_ConstantSeriesNoAlerts ==
    (BaselineCalled /\ IsConstant(time_series)
        /\ Len(time_series) >= min_data_points)
    => (outcome = "returned" /\ ret = <<>>)

\* the rolling window of the row the alert was raised for
WindowOfAlert(alert) ==
    LET sorted == SortByDate(time_series)
        i == CHOOSE k \in 1..Len(sorted) : sorted[k].date = alert.timestamp
    IN  RollingWindow(Costs(sorted), i, baseline_days)

\* C2: every alert BaselineDetector.detect returns has a confidence in
\* [0, 1], and a confidence of exactly 1 when the rolling sigma of its row is
\* zero (the breached bound equals the expected value).
C2_ConfidenceInUnitInterval ==
    (BaselineCalled /\ outcome = "returned")
    => \A i \in 1..Len(ret) :
          /\ 0 <= ret[i].confidence
          /\ ret[i].confidence <= ConfScale
          /\ VarTimes(WindowOfAlert(ret[i])) = 0 => ret[i].confidence = ConfScale

\* an alert lies so far beyond its bound that min(1.0, ...) cuts the ratio
C2_Witness ==
    /\ BaselineCalled /\ outcome = "returned"
    /\ \E i \in 1..Len(ret) :
          /\ ret[i].confidence = ConfScale
          /\ UnclampedConfidence(WindowOfAlert(ret[i]),
                                 std_threshold(sensitivity)) > ConfScale

\* the high-confidence events of a result that are derived from the alert
DerivedFrom(result, alert) ==
    { j \in 1..Len(result.high_confidence_anomalies) :
        /\ result.high_confidence_anomalies[j].date = alert.timestamp
        /\ result.high_confidence_anomalies[j].baseline_severity = alert.severity
        /\ result.high_confidence_anomalies[j].baseline_deviation
               = alert.deviation_percent
        /\ result.high_confidence_anomalies[j].actual_value = alert.actual_value
        /\ result.high_confidence_anomalies[j].expected_value = alert.expected_value
        /\ result.high_confidence_anomalies[j].confidence = alert.confidence }

\* the change-point events of a result within the floor-of-days window
EventsNear(result, alert) ==
    { j \in 1..Len(result.changepoint_events) :
        days_diff(alert.timestamp, result.changepoint_events[j].date) <= 3 }

\* C3: in every result of EnsembleDetector.detect, high_confidence_count is
\* at most total_anomalies: each baseline alert has at most one
\* high-confidence event, and each high-confidence event is derived from
\* exactly one baseline alert of the result.
C3_HighConfidenceBacked ==
    EnsembleCalled
    => /\ ret.high_confidence_count <= ret.total_anomalies
       /\ \A i \in 1..Len(ret.baseline_anomalies) :
             Cardinality(DerivedFrom(ret, ret.baseline_anomalies[i])) <= 1
       /\ \A j \in 1..Len(ret.high_confidence_anomalies) :
             Cardinality({ i \in 1..Len(ret.baseline_anomalies) :
                             j \in DerivedFrom(ret, ret.baseline_anomalies[i]) }) = 1

\* an alert with two change-point events in its window, and one event for it
C3_Witness ==
    /\ EnsembleCalled
    /\ \E i \in 1..Len(ret.baseline_anomalies) :
          /\ Cardinality(EventsNear(ret, ret.baseline_anomalies[i])) >= 2
          /\ Cardinality(DerivedFrom(ret, ret.baseline_anomalies[i])) = 1

\* C4: a baseline alert yields a high-confidence event if and only if some
\* change-point event's timestamp differs from the alert's by at most 3 days
\* in absolute value, whole days or not (so the test is symmetric).
C4_WithinThreeDaysIff ==
    EnsembleCalled
    => \A i \in 1..Len(ret.baseline_anomalies) :
          (DerivedFrom(ret, ret.baseline_anomalies[i]) # {})
          <=> (\E j \in 1..Len(ret.changepoint_events) :
                  Abs(ret.baseline_anomalies[i].timestamp
                      - ret.changepoint_events[j].date) <= 3 * HoursPerDay)

\* C5: BaselineDetector.detect on a series of fewer than min_data_points rows
\* returns an empty list and does not raise.
C5_ShortSeriesEmpty ==
    (BaselineCalled /\ Len(time_series) < min_data_points)
    => (outcome = "returned" /\ ret = <<>>)

\* 3 rows with min_data_points = 7, and a window pandas would refuse
C5_Witness ==
    /\ BaselineCalled
    /\ Len(time_series) = 3 /\ min_data_points = 7 /\ baseline_days < 7
    /\ ret = <<>> /\ logged = "insufficient_data"

\* C6: ChangepointDetector.detect returns an empty list whenever the series
\* has fewer than 2 * min_segment_length rows, whatever the backend does.
C6_TooShortForSegmentsEmpty ==
    (ChangepointCalled /\ Len(time_series) < 2 * min_segment_length)
    => ret = <<>>

\* the backend could not be imported, or was run and raised
BackendFailed ==
    \/ rpt.mode = "import_error"
    \/ rpt.mode = "raises" /\ Len(time_series) >= 2 * min_segment_length

\* C7: when the backend cannot be loaded or raises in fit/predict,
\* ChangepointDetector.detect returns, and what it returns is the result of
\* the moving-average fallback on the same series.
C7_FallbackOnBackendFailure ==
    (ChangepointCalled /\ BackendFailed)
    => /\ outcome = "returned"
       /\ ret = _simple_change_detection(time_series)

\* the backend raised and the fallback found a change
C7_Witness ==
    /\ ChangepointCalled
    /\ rpt.mode = "raises" /\ Len(time_series) >= 2 * min_segment_length
    /\ ret # <<>> /\ logged = "ruptures_error"

\* C8: an event whose denominator (before_mean: the mean before the break,
\* or the long-window average in the fallback) is zero or negative has a
\* change_percent of 0.
C8_NonPositiveDenominatorZeroPercent ==
    ChangepointCalled
    => \A j \in 1..Len(ret) :
          ret[j].before_mean.num <= 0 => ret[j].change_percent = RatZero

\* the four-tier table of severities
SeverityTable(p) ==
    IF RatGE(p, RatInt(100)) THEN "critical"
    ELSE IF RatGE(p, RatInt(50)) THEN "high"
    ELSE IF RatGE(p, RatInt(25)) THEN "medium"
    ELSE "low"

SeverityRank(sev) ==
    CASE sev = "low" -> 1 [] sev = "medium" -> 2 [] sev = "high" -> 3
      [] sev = "critical" -> 4

\* every alert and every event has the severity of the table for |percent|
AlertsFollowTable(alerts) ==
    \A i \in 1..Len(alerts) :
        alerts[i].severity = SeverityTable(RatAbs(alerts[i].deviation_percent))
EventsFollowTable(events) ==
    \A i \in 1..Len(events) :
        events[i].severity = SeverityTable(RatAbs(events[i].change_percent))

\* C9: severity is a non-decreasing function of the magnitude with the
\* thresholds >= 25 medium, >= 50 high, >= 100 critical, else low; the two
\* severity functions agree; every alert and event carries the severity of
\* the absolute value of its own percentage.
C9_SeverityTable ==
    /\ op = "severity" =>
          /\ ret.baseline # "none" =>
                /\ ret.baseline = SeverityTable(magnitude)
                /\ \A q \in Magnitudes :
                      RatGE(magnitude, q) =>
                         SeverityRank(_calculate_severity(q))
                             <= SeverityRank(ret.baseline)
          /\ ret.changepoint # "none" =>
                /\ ret.changepoint = SeverityTable(magnitude)
                /\ \A q \in Magnitudes :
                      RatGE(magnitude, q) =>
                         SeverityRank(_calculate_change_severity(q))
                             <= SeverityRank(ret.changepoint)
          /\ (ret.baseline # "none" /\ ret.changepoint # "none")
                => ret.baseline = ret.changepoint
    /\ (BaselineCalled /\ outcome = "returned") => AlertsFollowTable(ret)
    /\ ChangepointCalled => EventsFollowTable(ret)
    /\ EnsembleCalled =>
          /\ AlertsFollowTable(ret.baseline_anomalies)
          /\ EventsFollowTable(ret.changepoint_events)

\* both functions were called on exactly 25 percent and answered medium
C9_Witness ==
    /\ op = "severity" /\ magnitude = RatInt(25)
    /\ ret.baseline = "medium" /\ ret.changepoint = "medium"

\* Scenario A: 20 days at 100, one day at 500, then days at 100, with
\* baseline_days = 14, min_data_points = 7 and sensitivity medium
ScenarioA ==
    /\ BaselineCalled
    /\ \E t \in 0..MaxTail : time_series = Frame(SpikeCosts(500, t), HoursPerDay)
    /\ baseline_days = 14 /\ min_data_points = 7 /\ sensitivity = "medium"

SpikeDay == 20 * HoursPerDay

\* within 10 percentage points of 400
About400(p) == RatGE(p, RatInt(390)) /\ RatGE(RatInt(410), p)

\* C10 as stated: in Scenario A there is an alert at the spike day with a
\* deviation_percent of about +400% and severity critical.
C10_SpikeAbout400 ==
    ScenarioA
    => \E i \in 1..Len(ret) :
          /\ ret[i].timestamp = SpikeDay
          /\ About400(ret[i].deviation_percent)
          /\ ret[i].severity = "critical"

\* C10, what the code computes: in Scenario A the alert at the spike day has
\* actual value 500, expected value 900/7 (about 128.57: the mean of the 14
\* rows of the window, the spike among them), deviation_percent 2600/9
\* (about +288.9%) and severity critical.
C10_SpikeObserved ==
    ScenarioA
    => /\ outcome = "returned"
       /\ \E i \in 1..Len(ret) :
             /\ ret[i].timestamp = SpikeDay
             /\ ret[i].actual_value = 500
             /\ ret[i].expected_value = Rat(900, 7)
             /\ ret[i].deviation_percent = Rat(2600, 9)
             /\ ret[i].severity = "critical"
             /\ ret[i].direction = "spike"

\* C10: Scenario A was run with further points after the spike
C10_ScenarioRun ==
    /\ ScenarioA
    /\ Len(time_series) > 21
    /\ Len(ret) = 1

\* Scenario B: 20 days at 50, then 20 days at 150, min_segment_length = 3;
\* the backend fails, or finds the break where the cost shifts
ScenarioB ==
    /\ ChangepointCalled
    /\ time_series = ShiftFrame /\ min_segment_length = 3
    /\ BackendFailed \/ rpt.change_points = <<20, 40>>

\* within 10 percentage points of 200
About200(p) == RatGE(p, RatInt(190)) /\ RatGE(RatInt(210), p)

\* C11: in Scenario B ChangepointDetector.detect returns exactly one event,
\* at an index near 20, with change_type increase, a change_percent of about
\* +200% and severity critical, whether the backend or the fallback made it.
C11_ShiftOneCriticalEvent ==
    ScenarioB
    => /\ Len(ret) = 1
       /\ Abs(ret[1].index - 20) <= 2
       /\ ret[1].change_type = "increase"
       /\ About200(ret[1].change_percent)
       /\ ret[1].severity = "critical"

\* C11, what the code computes with the backend at work: one event at index
\* 20, from a mean of 50 to a mean of 150, +200%, critical.
C11_ShiftWithBackend ==
    (ScenarioB /\ ~BackendFailed)
    => ret = << [ date           |-> 20 * HoursPerDay,
                  index          |-> 20,
                  before_mean    |-> RatInt(50),
                  after_mean     |-> RatInt(150),
                  change_percent |-> RatInt(200),
                  change_type    |-> "increase",
                  severity       |-> "critical" ] >>

\* C11, what the code computes in the fallback: three events, at indices 21,
\* 29 and 37, none of them critical and none near +200%.
C11_ShiftWithFallback ==
    (ScenarioB /\ BackendFailed)
    => /\ [j \in 1..Len(ret) |-> ret[j].index] = <<21, 29, 37>>
       /\ [j \in 1..Len(ret) |-> ret[j].severity] = <<"medium", "high", "medium">>
       /\ [j \in 1..Len(ret) |-> ret[j].change_percent]
              = <<Rat(3000, 91), RatInt(80), Rat(400, 11)>>

\* two completed calls were the same call: same method, same arguments
SameCall(a, b) == a.op = b.op /\ a.args = b.args

RequiredColumns ==
    IF op \in {"BaselineDetector.detect_by_dimension",
               "EnsembleDetector.detect_by_service"}
    THEN {"date", "cost", "service"}
    ELSE {"date", "cost"}

\* C13: a call on a frame that lacks the timestamp, the value or the
\* requested dimension column fails with an error naming a missing column,
\* whatever the length of the series; a short series without a timestamp
\* column is an error and not an empty result.
C13_MissingFieldRaises ==
    (op \in DetectorCalls /\ outcome # "none" /\ RequiredColumns \ columns # {})
    => /\ outcome = "raised"
       /\ ret.names \in RequiredColumns \ columns

\* C13, what the code does when no early return comes first: a frame of 14
\* rows (enough for every detector) that lacks a required column makes the
\* call raise an error naming a missing column.
C13_LongEnoughRaises ==
    (op \in DetectorCalls /\ outcome # "none" /\ RequiredColumns \ columns # {}
        /\ Len(time_series) >= 14)
    => /\ outcome = "raised"
       /\ ret.names \in RequiredColumns \ columns

\* C13, what the code does on a short series: BaselineDetector.detect on
\* fewer than min_data_points rows returns the empty list, whatever columns
\* the frame has.
C13_ShortReturnsEmpty ==
    (op = "BaselineDetector.detect" /\ outcome # "none"
        /\ Len(time_series) < min_data_points)
    => outcome = "returned" /\ ret = <<>>

\* what the caller has in hand after a call: how it ended and its value
Observable(r) == [outcome |-> r.outcome, value |-> r.value]

\* the first k rows of the frame
Prefix(frame, k) == SubSeq(frame, 1, k)

\* C14: the caller can tell "not enough data" from "enough data and no
\* anomalies": a call of BaselineDetector.detect or ChangepointDetector.detect
\* on enough rows never ends as the same call does on the series cut down to
\* too few rows.
C14_InsufficiencyDistinguishable ==
    /\ (BaselineCalled /\ Len(time_series) >= min_data_points)
       => \A k \in 0..(min_data_points - 1) :
             Observable(BaselineDetectCall(columns, Prefix(time_series, k),
                                           baseline_days, min_data_points,
                                           sensitivity))
                 # [outcome |-> outcome, value |-> ret]
    /\ (ChangepointCalled /\ Len(time_series) >= 2 * min_segment_length)
       => \A k \in 0..(2 * min_segment_length - 1) :
             Observable(ChangepointDetectCall(columns, Prefix(time_series, k),
                                              min_segment_length,
                                              BackendOn(rpt, k)))
                 # [outcome |-> outcome, value |-> ret]

\* C14, what the code does: only the log tells the two apart.  A call of
\* BaselineDetector.detect that returns the empty list on enough rows logs
\* nothing, one on too few rows logs the warning.
C14_OnlyTheLogDiffers ==
    (BaselineCalled /\ outcome = "returned" /\ ret = <<>>)
    => (logged = "insufficient_data" <=> Len(time_series) < min_data_points)

\* the rows of the caller's frame that belong to a service, in frame order
RECURSIVE RowsOf(_, _)
RowsOf(frame, service) ==
    IF frame = <<>> THEN <<>>
    ELSE IF Head(frame).service = service
    THEN <<Head(frame)>> \o RowsOf(Tail(frame), service)
    ELSE RowsOf(Tail(frame), service)

ServicesIn(frame) == { frame[i].service : i \in 1..Len(frame) }
Keys(mapping) == { mapping[i].key : i \in 1..Len(mapping) }

ByDimensionCalled ==
    op = "BaselineDetector.detect_by_dimension" /\ outcome = "returned"
ByServiceCalled ==
    op = "EnsembleDetector.detect_by_service" /\ outcome # "none"

\* C15: detect_by_dimension returns a mapping with one entry for every
\* dimension value whose partition has at least min_data_points rows and
\* none for a smaller partition, and each entry is what detect returns on
\* the rows of that partition alone.
C15_EntryPerLargeEnoughPartition ==
    ByDimensionCalled
    => /\ Keys(ret) = { v \in ServicesIn(time_series) :
                          Len(RowsOf(time_series, v)) >= min_data_points }
       /\ \A i \in 1..Len(ret) :
             ret[i].value = BaselineDetect(RowsOf(time_series, ret[i].key),
                                           baseline_days, min_data_points,
                                           sensitivity).value

\* C15, what the code does: the mapping has an entry for the dimension
\* values whose partition is large enough and has at least one alert; each
\* entry is what detect returns on the rows of that partition alone.
C15_EntryPerPartitionWithAlerts ==
    ByDimensionCalled
    => /\ Keys(ret) = { v \in ServicesIn(time_series) :
                          /\ Len(RowsOf(time_series, v)) >= min_data_points
                          /\ BaselineDetect(RowsOf(time_series, v), baseline_days,
                                            min_data_points, sensitivity).value # <<>> }
       /\ \A i \in 1..Len(ret) :
             ret[i].value = BaselineDetect(RowsOf(time_series, ret[i].key),
                                           baseline_days, min_data_points,
                                           sensitivity).value

\* C16: detect_by_service returns, without raising, a mapping whose keys are
\* the services whose partition has at least 7 rows; each value is what
\* EnsembleDetector.detect returns on the rows of that partition alone.
C16_ServicesWithSevenRows ==
    ByServiceCalled
    => /\ outcome = "returned"
       /\ Keys(ret) = { v \in ServicesIn(time_series) :
                          Len(RowsOf(time_series, v)) >= 7 }
       /\ Len(ret) = Cardinality(Keys(ret))
       /\ \A i \in 1..Len(ret) :
             ret[i].value =
                 EnsembleDetect(RowsOf(time_series, ret[i].key), sensitivity,
                                BackendOn(rpt, Len(RowsOf(time_series, ret[i].key))))

\* one service has enough rows and an alert in its result, the other has
\* some rows, fewer than 7, and no entry
C16_Witness ==
    /\ ByServiceCalled
    /\ Keys(ret) = {"a"}
    /\ ret[1].value.baseline_anomalies # <<>>
    /\ Len(RowsOf(time_series, "b")) \in 1..6

\* the change-point event an alert is paired with: the first one, in event
\* order, within the window of the alert
PairedEvent(result, date) ==
    LET near == { j \in 1..Len(result.changepoint_events) :
                    days_diff(date, result.changepoint_events[j].date) <= 3 }
    IN  result.changepoint_events[CHOOSE j \in near : \A k \in near : j <= k]

\* the high-confidence event has, under the same name, at least one of the
\* fields of the change-point event other than its date
CarriesChangepointSignal(hc, event) ==
    \E f \in (DOMAIN event \ {"date"}) \cap DOMAIN hc : hc[f] = event[f]

\* C17: every high-confidence event of EnsembleDetector.detect carries the
\* signals of both its sources: the fields of the baseline alert and fields
\* of the change-point event it is paired with.
C17_CarriesBothSignals ==
    EnsembleCalled
    => \A j \in 1..Len(ret.high_confidence_anomalies) :
          /\ \E i \in 1..Len(ret.baseline_anomalies) :
                j \in DerivedFrom(ret, ret.baseline_anomalies[i])
          /\ CarriesChangepointSignal(
                 ret.high_confidence_anomalies[j],
                 PairedEvent(ret, ret.high_confidence_anomalies[j].date))

\* C17, what the code does: a high-confidence event is made of the fields of
\* the baseline alert and a type, and of nothing else.
C17_CarriesBaselineOnly ==
    EnsembleCalled
    => \A j \in 1..Len(ret.high_confidence_anomalies) :
          /\ \E i \in 1..Len(ret.baseline_anomalies) :
                j \in DerivedFrom(ret, ret.baseline_anomalies[i])
          /\ DOMAIN ret.high_confidence_anomalies[j]
                = { "date", "type", "baseline_severity", "baseline_deviation",
                    "actual_value", "expected_value", "confidence" }

\* C18: EnsembleDetector.detect returns the alerts of BaselineDetector.detect
\* (baseline_days = 14, min_data_points = 7) and the events of
\* ChangepointDetector.detect (min_segment_length = 3) on the same series as
\* they are, and its three counts are the lengths of its three lists.
C18_EnsembleReturnsBothResults ==
    EnsembleCalled
    => /\ outcome = "returned"
       /\ ret.baseline_anomalies
             = BaselineDetectCall(columns, time_series, 14, 7, sensitivity).value
       /\ ret.changepoint_events
             = ChangepointDetectCall(columns, time_series, 3, rpt).value
       /\ ret.total_anomalies = Len(ret.baseline_anomalies)
       /\ ret.total_changepoints = Len(ret.changepoint_events)
       /\ ret.high_confidence_count = Len(ret.high_confidence_anomalies)

\* the three lists are non-empty and of different lengths
C18_Witness ==
    /\ EnsembleCalled
    /\ ret.total_anomalies >= 2
    /\ ret.total_changepoints >= 1
    /\ ret.high_confidence_count >= 1
    /\ ret.high_confidence_count < ret.total_anomalies

\* the multiplier k of a sensitivity level, doubled
DoubledK(sens) ==
    CASE sens = "low" -> 8 [] sens = "medium" -> 6
      [] sens = "high" -> 4 [] sens = "very_high" -> 3

\* the trailing window of row i of the caller's frame: at most baseline_days
\* rows, row i the last of them
TrailingWindow(i) ==
    [j \in 1..Min(i, baseline_days) |->
        time_series[i - Min(i, baseline_days) + j].cost]

\* sum over the window of (n * x_j - sum)^2  =  n^2 * (n - 1) * sigma^2
RECURSIVE SquaredDeviations(_, _)
SquaredDeviations(win, j) ==
    IF j = 0 THEN 0
    ELSE (Len(win) * win[j] - Sum(win)) * (Len(win) * win[j] - Sum(win))
         + SquaredDeviations(win, j - 1)

\* (2 * n * (value - mean))^2 * (n - 1) against (2k * n * sigma)^2 * (n - 1)
DistanceSquared(win) ==
    4 * (Len(win) - 1) * (Len(win) * win[Len(win)] - Sum(win))
                       * (Len(win) * win[Len(win)] - Sum(win))
ReachSquared(win, sens) ==
    DoubledK(sens) * DoubledK(sens) * SquaredDeviations(win, Len(win))

\* row i has enough history and its value is strictly above mean + k*sigma
\* or strictly below mean - k*sigma
StrictlyOutside(i) ==
    /\ Len(TrailingWindow(i)) >= min_data_points
    /\ Len(TrailingWindow(i)) >= 2
    /\ DistanceSquared(TrailingWindow(i)) > ReachSquared(TrailingWindow(i), sensitivity)

\* row i has enough history and its value is on one of the two bounds, which
\* differ from the mean
OnABound(i) ==
    /\ Len(TrailingWindow(i)) >= min_data_points
    /\ Len(TrailingWindow(i)) >= 2
    /\ DistanceSquared(TrailingWindow(i)) = ReachSquared(TrailingWindow(i), sensitivity)
    /\ DistanceSquared(TrailingWindow(i)) > 0

AlertedRows ==
    { i \in 1..Len(time_series) :
        \E j \in 1..Len(ret) : ret[j].timestamp = time_series[i].date }

\* C19: BaselineDetector.detect emits an alert for a point if and only if
\* the point has at least min_data_points points in its trailing window of
\* baseline_days points and its value is strictly above mean + k*sigma or
\* strictly below mean - k*sigma, k = 4, 3, 2, 1.5 for low, medium, high,
\* very_high; a value on a bound and a point without enough history give no
\* alert.
C19_AlertIffStrictlyOutside ==
    (BaselineCalled /\ outcome = "returned" /\ sensitivity # "unknown")
    => /\ AlertedRows = { i \in 1..Len(time_series) : StrictlyOutside(i) }
       /\ Len(ret) = Cardinality(AlertedRows)

\* one row is strictly outside and has its alert, another lies exactly on a
\* bound and has none
C19_Witness ==
    /\ BaselineCalled /\ outcome = "returned" /\ sensitivity # "unknown"
    /\ \E i \in 1..Len(time_series) : OnABound(i) /\ i \notin AlertedRows
    /\ \E i \in 1..Len(time_series) : StrictlyOutside(i) /\ i \in AlertedRows

\* every frame with the rows of `frame`, each as often as in `frame`, in
\* ascending date order: its next row is any row left of the least date
RECURSIVE AscendingOrdersOf(_, _)
AscendingOrdersOf(frame, left) ==
    IF left = {} THEN {<<>>}
    ELSE UNION { { <<frame[i]>> \o rest : rest \in AscendingOrdersOf(frame, left \ {i}) }
                 : i \in { k \in left : \A j \in left : frame[k].date <= frame[j].date } }
AscendingOrders(frame) == AscendingOrdersOf(frame, 1..Len(frame))

NotInDateOrder(frame) ==
    \E i \in 1..(Len(frame) - 1) : frame[i].date > frame[i + 1].date
DatesRepeat(frame) ==
    \E i, j \in 1..Len(frame) : i # j /\ frame[i].date = frame[j].date

AlertsAscend(alerts) ==
    \A i \in 1..(Len(alerts) - 1) : alerts[i].timestamp <= alerts[i + 1].timestamp
EventsAscend(events) ==
    \A i \in 1..(Len(events) - 1) : events[i].date <= events[i + 1].date

\* the completed calls of BaselineDetector.detect, of ChangepointDetector.detect
BaselineResults ==
    { k \in 1..Len(history) : /\ history[k].op = "BaselineDetector.detect"
                              /\ history[k].outcome = "returned" }
ChangepointResults ==
    { k \in 1..Len(history) : /\ history[k].op = "ChangepointDetector.detect"
                              /\ history[k].outcome = "returned" }

\* C20: the alerts of BaselineDetector.detect and the events of
\* ChangepointDetector.detect are in ascending timestamp order for every
\* input, sorted by date or not, and they are the alerts and events of the
\* input's rows put in ascending date order, every row kept, rows of equal
\* date included.
C20_AscendingOnSortedCopy ==
    /\ (op = "BaselineDetector.detect" /\ outcome = "returned")
       => /\ AlertsAscend(ret)
          /\ \E g \in AscendingOrders(time_series) :
                ret = BaselineDetect(g, baseline_days, min_data_points, sensitivity).value
    /\ (op = "ChangepointDetector.detect" /\ outcome = "returned")
       => /\ EventsAscend(ret)
          /\ \E g \in AscendingOrders(time_series) :
                ret = ChangepointDetect(g, min_segment_length, rpt).value

\* both calls were made on a frame that is not in date order and has rows of
\* equal date, and each returned two results or more
C20_Witness ==
    /\ NotInDateOrder(time_series) /\ DatesRepeat(time_series)
    /\ \E k \in BaselineResults : Len(history[k].value) >= 2
    /\ \E k \in ChangepointResults : Len(history[k].value) >= 2

\* an alert's value is above the mean of its window, hence above the upper
\* bound, which it is outside of
BreachesUpward(alert) == RatGT(RatInt(alert.actual_value), alert.expected_value)

\* C21: the message of every alert says "spike" when the actual value is
\* above the upper bound and "drop" when it is below the lower bound, also
\* when the expected value is zero or negative.
C21_MessageStatesDirection ==
    (op = "BaselineDetector.detect" /\ outcome = "returned")
    => \A j \in 1..Len(ret) :
          ret[j].direction = (IF BreachesUpward(ret[j]) THEN "spike" ELSE "drop")

\* what the code does: the word follows the sign of deviation_percent, which
\* is 0 when the expected value is not positive
C21_DirectionFollowsDeviation ==
    (op = "BaselineDetector.detect" /\ outcome = "returned")
    => \A j \in 1..Len(ret) :
          /\ ret[j].direction = (IF RatGT(ret[j].deviation_percent, RatZero)
                                 THEN "spike" ELSE "drop")
          /\ RatGT(ret[j].expected_value, RatZero)
             => ret[j].direction = (IF BreachesUpward(ret[j]) THEN "spike" ELSE "drop")
          /\ ~RatGT(ret[j].expected_value, RatZero) => ret[j].direction = "drop"

\* the 7-point and the 30-point trailing averages at 0-based index i differ
\* by more than 30% of the latter
AveragesApart(signal, i) ==
    /\ HasMovingAverage(i, 7, 4) /\ HasMovingAverage(i, 30, 14)
    /\ Sum(MovingWindow(signal, i, 30)) # 0
    /\ RatGT(RatAbs(MovingDeviation(MovingWindow(signal, i, 7),
                                    MovingWindow(signal, i, 30))), RatInt(30))

\* the indices up to i flagged when a flagged index must be more than `gap`
\* positions after the previously flagged one
RECURSIVE FlagsSpacedBy(_, _, _)
FlagsSpacedBy(signal, i, gap) ==
    IF i < 0 THEN <<>>
    ELSE LET flags == FlagsSpacedBy(signal, i - 1, gap)
         IN  IF /\ AveragesApart(signal, i)
                /\ flags = <<>> \/ i - flags[Len(flags)] > gap
             THEN Append(flags, i) ELSE flags

FallbackAnswered ==
    /\ op = "ChangepointDetector.detect" /\ outcome = "returned"
    /\ \/ rpt.mode = "import_error"
       \/ rpt.mode = "raises" /\ Len(time_series) >= 2 * min_segment_length

EventIndices == [j \in 1..Len(ret) |-> ret[j].index]

\* C22: the fallback flags index i exactly when the 7-point and 30-point
\* trailing averages differ by more than 30% at i and i is more than
\* min_segment_length positions after the previously flagged index; a series
\* of fewer than 14 points gives no event.
C22_FlagsSpacedByMinSegment ==
    FallbackAnswered
    => /\ EventIndices = FlagsSpacedBy(Costs(SortByDate(time_series)),
                                       Len(time_series) - 1, min_segment_length)
       /\ Len(time_series) < 14 => ret = <<>>

\* what the code does: the spacing is 7 positions whatever min_segment_length is
C22_FlagsSpacedBySeven ==
    FallbackAnswered
    => /\ EventIndices = IF Len(time_series) < 14 THEN <<>>
                         ELSE FlagsSpacedBy(Costs(SortByDate(time_series)),
                                            Len(time_series) - 1, 7)
       /\ Len(time_series) < 14 => ret = <<>>

\* the up-to-7 costs before 0-based index i of the sorted series, and the
\* up-to-7 costs from i on
SevenBefore(i) ==
    LET signal == Costs(SortByDate(time_series))
    IN  SubSeq(signal, Max(1, i - 6), i)
SevenFrom(i) ==
    LET signal == Costs(SortByDate(time_series))
    IN  SubSeq(signal, i + 1, Min(Len(signal), i + 7))

MeanOf(values) == Rat(Sum(values), Len(values))

\* (after - before) / before * 100 of the means of two lists of costs
PercentBetween(before, after) ==
    Rat(100 * (Sum(after) * Len(before) - Sum(before) * Len(after)),
        Sum(before) * Len(after))

ChangepointAnswered == op = "ChangepointDetector.detect" /\ outcome = "returned"

\* C23: in every event of ChangepointDetector.detect, from either algorithm,
\* before_mean is the mean of the up-to-7 points before the event's index,
\* after_mean the mean of the up-to-7 points from the index on, and
\* change_percent = (after_mean - before_mean) / before_mean * 100.
C23_MeansOfSevenEachSide ==
    ChangepointAnswered
    => \A j \in 1..Len(ret) :
          /\ ret[j].before_mean = MeanOf(SevenBefore(ret[j].index))
          /\ ret[j].after_mean = MeanOf(SevenFrom(ret[j].index))
          /\ Sum(SevenBefore(ret[j].index)) # 0
             => ret[j].change_percent =
                    PercentBetween(SevenBefore(ret[j].index), SevenFrom(ret[j].index))

\* what the code does: the events of the backend are as claimed when the
\* mean before is positive; the events of the fallback carry the 30-point
\* trailing average as before_mean and the 7-point trailing average, which
\* ends at the index, as after_mean
C23_MeansByAlgorithm ==
    /\ (ChangepointAnswered /\ ~FallbackAnswered)
       => \A j \in 1..Len(ret) :
             /\ ret[j].before_mean = MeanOf(SevenBefore(ret[j].index))
             /\ ret[j].after_mean = MeanOf(SevenFrom(ret[j].index))
             /\ Sum(SevenBefore(ret[j].index)) > 0
                => ret[j].change_percent =
                       PercentBetween(SevenBefore(ret[j].index), SevenFrom(ret[j].index))
    /\ FallbackAnswered
       => \A j \in 1..Len(ret) :
             LET signal == Costs(SortByDate(time_series))
                 i == ret[j].index
             IN  /\ ret[j].before_mean = MeanOf(SubSeq(signal, Max(1, i - 28), i + 1))
                 /\ ret[j].after_mean = MeanOf(SubSeq(signal, i - 5, i + 1))
                 /\ ret[j].change_percent =
                        PercentBetween(SubSeq(signal, Max(1, i - 28), i + 1),
                                       SubSeq(signal, i - 5, i + 1))

\* C24: no event of ChangepointDetector.detect has index 0 or index equal to
\* the series length: the backend's end-of-series marker gives no event, every
\* index i is in 1..length-1, and the event's timestamp is that of the point
\* at 0-based position i of the date-sorted series.
C24_IndicesInsideSeries ==
    ChangepointAnswered
    => /\ \A j \in 1..Len(ret) :
             /\ ret[j].index >= 1
             /\ ret[j].index <= Len(time_series) - 1
             /\ ret[j].date = SortByDate(time_series)[ret[j].index + 1].date
       /\ (rpt.mode = "ok" /\ Len(time_series) >= 2 * min_segment_length)
          => Len(ret) = Cardinality({ k \in 1..Len(rpt.change_points) :
                                        /\ rpt.change_points[k] >= 1
                                        /\ rpt.change_points[k] < Len(time_series) })

\* the backend returned two breaks inside the series and the end marker; the
\* call returned two events
C24_Witness ==
    /\ ChangepointAnswered /\ rpt.mode = "ok"
    /\ Len(rpt.change_points) = 3
    /\ rpt.change_points[3] = Len(time_series)
    /\ Len(ret) = 2

SegmentsCalled ==
    /\ op = "ChangepointDetector.analyze_segment_costs" /\ outcome # "none"

\* the change_points of the call just made
GivenBreaks == history[Len(history)].args

StrictlyAscending(indices) ==
    \A k \in 1..(Len(indices) - 1) : indices[k] < indices[k + 1]

\* the list holds the virtual start 0 and the end, the series length
HoldsStartAndEnd(indices) ==
    /\ Len(indices) >= 2
    /\ indices[1] = 0
    /\ indices[Len(indices)] = Len(time_series)

\* ret holds one segment per pair of consecutive indices of `bounds`, in
\* order, each the summary of the rows from the first index up to but not
\* including the second
SegmentsOfPairs(bounds) ==
    /\ outcome = "returned"
    /\ Len(ret) = Len(bounds) - 1
    /\ \A k \in 1..Len(ret) :
          /\ ret[k].segment_number = k
          /\ ret[k].length = bounds[k + 1] - bounds[k]
          /\ ret[k].length >= 1
          /\ ret[k].total =
                Sum(SubSeq(Costs(SortByDate(time_series)), bounds[k] + 1, bounds[k + 1]))
          /\ ret[k].start_date = SortByDate(time_series)[bounds[k] + 1].date
          /\ ret[k].end_date = SortByDate(time_series)[bounds[k + 1]].date
    /\ Sum([k \in 1..Len(ret) |-> ret[k].length]) = Len(time_series)

\* C25: analyze_segment_costs, given the change indices including the
\* virtual start 0 and the end, the series length, returns one segment per
\* pair of consecutive indices, in order; every segment is non-empty, the
\* point counts sum to the series length and no point is counted twice.
C25_SegmentPerPairOfGivenIndices ==
    (SegmentsCalled /\ HoldsStartAndEnd(GivenBreaks) /\ StrictlyAscending(GivenBreaks))
    => SegmentsOfPairs(GivenBreaks)

\* what the code does: it puts 0 before and the series length after the
\* indices it is given; it returns the segments when the indices are strictly
\* ascending and inside 1..length-1 and the series is not empty, and raises
\* otherwise
C25_SegmentPerPairOfExtendedIndices ==
    SegmentsCalled
    => IF /\ StrictlyAscending(GivenBreaks)
          /\ \A k \in 1..Len(GivenBreaks) :
                GivenBreaks[k] >= 1 /\ GivenBreaks[k] <= Len(time_series) - 1
          /\ Len(time_series) >= 1
       THEN SegmentsOfPairs(<<0>> \o GivenBreaks \o <<Len(time_series)>>)
       ELSE outcome = "raised"

ForecastCalled ==
    /\ op = "BaselineDetector.calculate_cost_forecast" /\ outcome # "none"

\* the days_ahead of the call just made
GivenDaysAhead == history[Len(history)].args[1]

\* the date-sorted costs, and the last 7 of them
SortedCosts == Costs(SortByDate(time_series))
LastSeven == SubSeq(SortedCosts, Max(1, Len(SortedCosts) - 6), Len(SortedCosts))

\* the latest date of the frame
LatestDate ==
    CHOOSE d \in { time_series[k].date : k \in 1..Len(time_series) } :
        \A k \in 1..Len(time_series) : time_series[k].date <= d

\* ret has days_ahead rows; row i is i days after the last observed date and
\* holds the last observed value plus i times the mean of the consecutive
\* differences of the last 7 values
ForecastRows ==
    /\ outcome = "returned"
    /\ Len(ret) = GivenDaysAhead
    /\ \A i \in 1..Len(ret) :
          /\ ret[i].date = LatestDate + i * HoursPerDay
          /\ Len(LastSeven) >= 2
             => ret[i].cost_forecast =
                   Rat((Len(LastSeven) - 1) * SortedCosts[Len(SortedCosts)]
                       + i * Sum([k \in 1..(Len(LastSeven) - 1) |->
                                     LastSeven[k + 1] - LastSeven[k]]),
                       Len(LastSeven) - 1)

\* C26: calculate_cost_forecast returns exactly days_ahead rows, the i-th
\* with timestamp = last observed timestamp + i days and value = last
\* observed value + i * d, d the mean of the consecutive differences of the
\* last 7 points of the date-sorted series; a series shorter than
\* min_data_points is handled without throwing to the caller.
C26_ForecastRowsOrNoThrow ==
    ForecastCalled
    => IF Len(time_series) >= min_data_points THEN ForecastRows
       ELSE outcome = "returned"

\* what the code does: the rows are as claimed for a series of at least
\* min_data_points rows (the values are NaN for a series of one row); a
\* shorter series raises ValueError
C26_ForecastRowsOrRaise ==
    ForecastCalled
    => IF Len(time_series) >= min_data_points
       THEN /\ ForecastRows
            /\ Len(time_series) = 1 => \A i \in 1..Len(ret) : ret[i].cost_forecast = NaN
       ELSE /\ outcome = "raised"
            /\ ret.exception = "ValueError"

\* the caller's frame is in date order and row i ends a window of 14 rows of
\* which the first 13 have one value and the last another: the row farthest
\* from the mean of its own window, in standard deviations, that a row can be
LoneOutlierAt(i) ==
    /\ i >= 14
    /\ \A k \in (i - 13)..(i - 1) : time_series[k].cost = time_series[i - 13].cost
    /\ time_series[i].cost # time_series[i - 13].cost

\* C27: with the default window (baseline_days = 14, min_data_points = 7) and
\* sensitivity low (multiplier 4), BaselineDetector.detect returns no alert,
\* whatever the series.
C27_DefaultLowNeverAlerts ==
    (/\ op = "BaselineDetector.detect" /\ outcome # "none"
     /\ baseline_days = 14 /\ min_data_points = 7 /\ sensitivity = "low")
    => outcome = "returned" /\ ret = <<>>

\* the call was made with the defaults and low on a series with a lone
\* outlier at the end of a full window, and returned no alert
C27_Witness ==
    /\ op = "BaselineDetector.detect" /\ outcome = "returned"
    /\ baseline_days = 14 /\ min_data_points = 7 /\ sensitivity = "low"
    /\ \E i \in 1..Len(time_series) : LoneOutlierAt(i)
    /\ ret = <<>>

RequestIds == DOMAIN approval_requests

\* the request has been approved or rejected
IsDecided(request_id) ==
    /\ request_id \in RequestIds
    /\ approval_requests[request_id].status \in {"approved", "rejected"}

\* this step is a call of approve or of reject
DecisionCalled ==
    /\ engine_result' # engine_result
    /\ engine_result'.call \in {"approve", "reject"}

\* C28: approved and rejected are terminal.  Over any sequence of
\* request_approval, approve and reject calls, no request is ever expired, a
\* request that is approved or rejected keeps its status, and an approve or
\* reject call on an unknown or non-pending request raises and leaves that
\* request, all other requests and the approval log unchanged.
C28_DecidedIsTerminal ==
    /\ [](\A id \in RequestIds :
             approval_requests[id].status \in ApprovalStatus \ {"expired"})
    /\ [][\A id \in RequestIds :
             IsDecided(id) => /\ id \in DOMAIN approval_requests'
                              /\ approval_requests'[id] = approval_requests[id]]_vars
    /\ [][(/\ DecisionCalled
           /\ \/ engine_result'.request_id \notin RequestIds
              \/ approval_requests[engine_result'.request_id].status # "pending")
          => /\ engine_result'.outcome = "raised"
             /\ approval_requests' = approval_requests
             /\ approval_log' = approval_log]_vars
    /\ [][(DecisionCalled /\ engine_result'.outcome = "raised")
          => /\ approval_requests' = approval_requests
             /\ approval_log' = approval_log]_vars

\* a request was rejected by hand, another was approved on creation, and a
\* later approve or reject call on one of them raised
C28_Witness ==
    /\ \E id \in RequestIds : approval_requests[id].status = "rejected"
    /\ \E id \in RequestIds : approval_requests[id].auto_approved
    /\ engine_result.outcome = "raised"
    /\ IsDecided(engine_result.request_id)

\* the request qualifies: not high risk, a safe action, savings under $100
Qualifies(request) ==
    /\ request.risk_level # "high"
    /\ request.action_type \in {"delete_snapshots", "stop_instances"}
    /\ request.action_type \notin {"delete_volumes", "terminate_instances"}
    /\ request.estimated_savings < 100

RoutesServing == op = "action_routes"

\* the request was approved by a call of approve
ApprovedByHand(request_id) ==
    \E k \in 1..Len(approval_log) :
        /\ approval_log[k].request_id = request_id
        /\ approval_log[k].action = "approve"

\* C30: the remediation routes call the playbook only for a request for which
\* is_approved is true at that moment; with the values the routes pass no
\* request is approved on creation, so neither route ever executes a
\* remediation in the requesting call.
C30_NoExecutionInRequestingCall ==
    RoutesServing
    => /\ \A k \in 1..Len(executed) :
             approval_requests[executed[k].request_id].status = "approved"
       /\ \A id \in RequestIds : ~approval_requests[id].auto_approved
       /\ executed = <<>>

\* what the code does: no request of a route is approved on creation, and a
\* route calls the playbook, in the requesting call, exactly for a request
\* that a call of approve has approved between the route's request_approval
\* and its is_approved
C30_ExecutesWhatWasApprovedMeanwhile ==
    RoutesServing
    => /\ \A id \in RequestIds : ~approval_requests[id].auto_approved
       /\ \A k \in 1..Len(executed) :
             /\ approval_requests[executed[k].request_id].status = "approved"
             /\ ApprovedByHand(executed[k].request_id)
       /\ (engine_result.outcome = "pending_approval"
           /\ approval_requests[engine_result.request_id].status = "approved")
          => engine_result.request_id
                \notin { executed[k].request_id : k \in 1..Len(executed) }

====
